---------------------------- MODULE Spec2Model ----------------------------
(***************************************************************************)
(* A model of the Thrift-subset compiler of poc_python_thrift_parser: the  *)
(* tokenizer (tokenizer.py) one pass of its main loop at a time, the       *)
(* parser (parser.py) one top-level definition at a time, the code         *)
(* generator (code_gen.py) as operators over the AST the parser builds,    *)
(* and the Zig code it emits (write / read / deinit of every struct and    *)
(* union) as an interpreter over the emitted statements, run against a     *)
(* frame-level model of the TCompactProtocol Reader/Writer.                *)
(***************************************************************************)
EXTENDS Integers, Sequences, FiniteSets, TLC

VARIABLES
    src,        \* the source text handed to parse_idl
    idx,        \* all_tokens: index into the source text
    row,        \* all_tokens: line number, 1-based
    col,        \* all_tokens: column number, 1-based
    tokens,     \* the tokens yielded so far (Parser.tokens)
    ppos,       \* Parser.pos: the index of the next token
    exc,        \* the exception that ended lexing or parsing (NoException otherwise)
    idl,        \* the definitions parsed so far, then the IDLFile handed to CodeGenerator
    gpc,        \* position of the run: lex/parse/defs/print/done, raised, spin
    parts,      \* names of the definitions generated so far (generate's parts)
    gerr,       \* the exception that ended generate, "none" otherwise
    printed,    \* TRUE once __main__ has printed the generated text
    rname,      \* the struct/union whose generated read is running
    wname,      \* the struct/union whose generated write produced the wire
    wval,       \* the value handed to the generated write (Null if none)
    wire,       \* the frames the Reader reads from
    pc,         \* position of the generated code: idle/begin/loop/end/done/failed/released
    obj,        \* read's obj (the struct under construction, or ?Union)
    isset,      \* read's Isset bitmap (struct reads)
    heap,       \* Reader position and allocator: [pos, nxt, live, bad]
    rerr,       \* the error the outermost read returned, "none" otherwise
    sent,       \* how many fields the peer has sent on a received stream
    eof         \* TRUE once the received stream has ended

\* the state of the tokenizer and of the parser
front == <<src, idx, row, col, tokens, ppos, exc>>

vars == <<src, idx, row, col, tokens, ppos, exc,
          idl, gpc, parts, gerr, printed, rname, wname, wval, wire,
          pc, obj, isset, heap, rerr, sent, eof>>

---------------------------------------------------------------------------
(* parser.py: AST nodes                                                    *)

NamedType(name) == [k |-> "NamedType", name |-> name]

ListType(elem_type) == [k |-> "ListType", elem_type |-> elem_type]

Field(id, required, type, name, default) ==
    [id |-> id, required |-> required, type |-> type, name |-> name, default |-> default]

EnumMember(name, value) == [name |-> name, value |-> value]

EnumDef(name, members) == [k |-> "EnumDef", name |-> name, members |-> members]

StructDef(name, fields) == [k |-> "StructDef", name |-> name, fields |-> fields]

UnionDef(name, fields) == [k |-> "UnionDef", name |-> name, fields |-> fields]

IDLFile(definitions) == [definitions |-> definitions]

---------------------------------------------------------------------------
(* tokenizer.py: a source text is a sequence of one-character strings      *)

Pos(i, r, c) == [idx |-> i, row |-> r, col |-> c]

Token(tp, start, end) == [tp |-> tp, start |-> start, end |-> end]

\* an exception object: its class, its message and, for ParseException,
\* its pos attribute (<<>> where the class has none)
Exception(type, message, p) == [type |-> type, message |-> message, pos |-> p]

ParseException(message, p) == Exception("ParseException", message, p)

NoException == Exception("none", "", <<>>)

KEYWORDS ==
    [enum |-> "ENUM", union |-> "UNION", struct |-> "STRUCT", list |-> "LIST",
     bool |-> "BOOL", byte |-> "BYTE", uuid |-> "UUID", i8 |-> "I8", i16 |-> "I16",
     i32 |-> "I32", i64 |-> "I64", double |-> "DOUBLE", string |-> "STRING",
     binary |-> "BINARY", required |-> "REQUIRED", optional |-> "OPTIONAL",
     const |-> "CONST", exception |-> "EXCEPTION", service |-> "SERVICE",
     extends |-> "EXTENDS", typedef |-> "TYPEDEF", void |-> "VOID",
     oneway |-> "ONEWAY", sink |-> "SINK"]

SKIP_STATEMENTS == {"include", "namespace"}

NOT_IMPL == {"map", "set", "cpp_type", "throws"}

punct_map ==
    [c \in {"{", "}", "(", ")", "<", ">", ";", ",", ":", "="} |->
        CASE c = "{" -> "LBRACE" [] c = "}" -> "RBRACE"
          [] c = "(" -> "LPAREN" [] c = ")" -> "RPAREN"
          [] c = "<" -> "LT"     [] c = ">" -> "GT"
          [] c = ";" -> "SEMICOLON" [] c = "," -> "COMMA"
          [] c = ":" -> "COLON"  [] c = "=" -> "EQUAL"]

\* str.isdigit / isalpha / isalnum on the characters of the source texts
Digits == {"0", "1", "2", "3", "4", "5", "6", "7", "8", "9"}

Letters ==
    {"a", "b", "c", "d", "e", "f", "g", "h", "i", "j", "k", "l", "m", "n", "o", "p",
     "q", "r", "s", "t", "u", "v", "w", "x", "y", "z",
     "A", "B", "C", "D", "E", "F", "G", "H", "I", "J", "K", "L", "M", "N", "O", "P",
     "Q", "R", "S", "T", "U", "V", "W", "X", "Y", "Z"}

isdigit(c) == c \in Digits

isalpha(c) == c \in Letters

isalnum(c) == c \in Letters \cup Digits

\* the characters of " \t\r\n"
Blank == {" ", "\t", "\r", "\n"}

\* src[i] if i < length else ""
cur_char(s, i) == IF i < Len(s) THEN s[i + 1] ELSE ""

\* advance that does not return to column 1 after a newline
RECURSIVE advance_same_line(_, _, _)
advance_same_line(s, p, n) ==
    IF n = 0 \/ p.idx >= Len(s) THEN p
    ELSE advance_same_line(s,
                           IF s[p.idx + 1] = "\n" THEN Pos(p.idx + 1, p.row + 1, p.col + 1)
                           ELSE Pos(p.idx + 1, p.row, p.col + 1),
                           n - 1)

RECURSIVE advance(_, _, _)
advance(s, p, n) ==
    IF n = 0 \/ p.idx >= Len(s) THEN p
    ELSE advance(s,
                 IF s[p.idx + 1] = "\n" THEN Pos(p.idx + 1, p.row + 1, 1)
                 ELSE Pos(p.idx + 1, p.row, p.col + 1),
                 n - 1)

\* while idx < length and src[idx] in C: advance()
RECURSIVE AdvanceWhile(_, _, _)
AdvanceWhile(s, p, C) ==
    IF p.idx < Len(s) /\ s[p.idx + 1] \in C
    THEN AdvanceWhile(s, advance(s, p, 1), C) ELSE p

\* while idx < length and src[idx] not in C: advance()
RECURSIVE AdvanceUntil(_, _, _)
AdvanceUntil(s, p, C) ==
    IF p.idx < Len(s) /\ s[p.idx + 1] \notin C
    THEN AdvanceUntil(s, advance(s, p, 1), C) ELSE p

\* what one pass of the main loop comes to: the position it leaves, the
\* token it yields (if any), the exception it raises (if any), and whether
\* it never ends
Pass(p, tok, e, spins) == [p |-> p, tok |-> tok, exc |-> e, spins |-> spins]

Continue(p) == Pass(p, <<>>, NoException, FALSE)

Yield(tok) == Pass(tok.end, <<tok>>, NoException, FALSE)

Throw(p, e) == Pass(p, <<>>, e, FALSE)

\* a loop whose condition stays true while advance() no longer moves
Spin(p) == Pass(p, <<>>, NoException, TRUE)

\* the body of a /* comment */, p after the opening
RECURSIVE BlockComment(_, _)
BlockComment(s, p) ==
    IF p.idx >= Len(s)
    THEN Throw(p, ParseException("Unterminated /* comment */", p))
    ELSE IF s[p.idx + 1] = "*" /\ cur_char(s, p.idx + 1) = "/"
    THEN Continue(advance(s, p, 2))
    ELSE BlockComment(s, advance(s, p, 1))

\* the quoted value of an annotation, p after the opening quote
RECURSIVE QuotedValue(_, _)
QuotedValue(s, p) ==
    IF p.idx >= Len(s) THEN p
    ELSE IF s[p.idx + 1] = "\\" THEN QuotedValue(s, advance(s, p, 2))
    ELSE IF s[p.idx + 1] = "\"" THEN advance(s, p, 1)
    ELSE QuotedValue(s, advance(s, p, 1))

\* while cur_char() in " \t\r\n": advance(), from p: the position it
\* leaves, or the end of the text where it cannot leave
SkipBlank(s, p) == AdvanceWhile(s, p, Blank)

\* the value of an annotation, p after the "=" and the blanks
AnnotationValue(s, p) ==
    IF p.idx >= Len(s) THEN Spin(p)
    ELSE IF s[p.idx + 1] = "\"" THEN Continue(QuotedValue(s, advance(s, p, 1)))
    ELSE Continue(AdvanceWhile(s, p, Digits \cup {"+", "-"}))

\* the rest of an annotation, p after its name and the blanks
AnnotationRest(s, p) ==
    IF p.idx >= Len(s) THEN Spin(p)
    ELSE IF s[p.idx + 1] = "=" THEN AnnotationValue(s, SkipBlank(s, advance(s, p, 1)))
    ELSE Continue(p)

\* @Foo = "bar", p after the "@"
Annotation(s, p) ==
    IF ~(isalpha(cur_char(s, p.idx)) \/ cur_char(s, p.idx) = "_")
    THEN Throw(p, ParseException("Bad annotation name", p))
    ELSE AnnotationRest(s, SkipBlank(s, AdvanceWhile(s, p, Letters \cup Digits \cup {"_"})))

\* ['+'|'-']? Digit+, p at its first character
IntConst(s, start, p) ==
    IF ~isdigit(cur_char(s, p.idx))
    THEN Throw(p, ParseException("Invalid integer literal", p))
    ELSE Yield(Token("INT_CONST", start, AdvanceWhile(s, p, Digits)))

\* if cur_char() == ";": advance()
SkipSemicolon(s, p) ==
    IF cur_char(s, p.idx) = ";" THEN Continue(advance(s, p, 1)) ELSE Continue(p)

\* an include/namespace statement, p after the keyword: up to the next ";"
\* or "/" (left to the main loop)
SkipStatement(s, p) == SkipSemicolon(s, AdvanceUntil(s, p, {";", "/"}))

\* how the words of the source texts are spelled
Spelling ==
    [enum |-> <<"e", "n", "u", "m">>, union |-> <<"u", "n", "i", "o", "n">>,
     struct |-> <<"s", "t", "r", "u", "c", "t">>, list |-> <<"l", "i", "s", "t">>,
     bool |-> <<"b", "o", "o", "l">>, byte |-> <<"b", "y", "t", "e">>,
     uuid |-> <<"u", "u", "i", "d">>, i8 |-> <<"i", "8">>, i16 |-> <<"i", "1", "6">>,
     i32 |-> <<"i", "3", "2">>, i64 |-> <<"i", "6", "4">>,
     double |-> <<"d", "o", "u", "b", "l", "e">>,
     string |-> <<"s", "t", "r", "i", "n", "g">>,
     binary |-> <<"b", "i", "n", "a", "r", "y">>,
     required |-> <<"r", "e", "q", "u", "i", "r", "e", "d">>,
     optional |-> <<"o", "p", "t", "i", "o", "n", "a", "l">>,
     const |-> <<"c", "o", "n", "s", "t">>,
     exception |-> <<"e", "x", "c", "e", "p", "t", "i", "o", "n">>,
     service |-> <<"s", "e", "r", "v", "i", "c", "e">>,
     extends |-> <<"e", "x", "t", "e", "n", "d", "s">>,
     typedef |-> <<"t", "y", "p", "e", "d", "e", "f">>, void |-> <<"v", "o", "i", "d">>,
     oneway |-> <<"o", "n", "e", "w", "a", "y">>, sink |-> <<"s", "i", "n", "k">>,
     include |-> <<"i", "n", "c", "l", "u", "d", "e">>,
     namespace |-> <<"n", "a", "m", "e", "s", "p", "a", "c", "e">>,
     map |-> <<"m", "a", "p">>, set |-> <<"s", "e", "t">>,
     cpp_type |-> <<"c", "p", "p", "_", "t", "y", "p", "e">>,
     throws |-> <<"t", "h", "r", "o", "w", "s">>,
     xsd_all |-> <<"x", "s", "d", "_", "a", "l", "l">>,
     Color |-> <<"C", "o", "l", "o", "r">>, RED |-> <<"R", "E", "D">>,
     GREEN |-> <<"G", "R", "E", "E", "N">>, Point |-> <<"P", "o", "i", "n", "t">>,
     x |-> <<"x">>, label |-> <<"l", "a", "b", "e", "l">>,
     Shape |-> <<"S", "h", "a", "p", "e">>, origin |-> <<"o", "r", "i", "g", "i", "n">>,
     color |-> <<"c", "o", "l", "o", "r">>, tags |-> <<"t", "a", "g", "s">>,
     Inner |-> <<"I", "n", "n", "e", "r">>, s |-> <<"s">>, U |-> <<"U">>, n |-> <<"n">>,
     inner |-> <<"i", "n", "n", "e", "r">>, Holder |-> <<"H", "o", "l", "d", "e", "r">>,
     u |-> <<"u">>, Crowd |-> <<"C", "r", "o", "w", "d">>, us |-> <<"u", "s">>,
     Bag |-> <<"B", "a", "g">>, inners |-> <<"i", "n", "n", "e", "r", "s">>,
     ABC |-> <<"A", "B", "C">>, a |-> <<"a">>, b |-> <<"b">>, c |-> <<"c">>,
     AC |-> <<"A", "C">>, Scalars |-> <<"S", "c", "a", "l", "a", "r", "s">>,
     y |-> <<"y">>, h |-> <<"h">>, l |-> <<"l">>, raw |-> <<"r", "a", "w">>,
     LU |-> <<"L", "U">>, xs |-> <<"x", "s">>, HasLU |-> <<"H", "a", "s", "L", "U">>,
     Bad |-> <<"B", "a", "d">>, Foo |-> <<"F", "o", "o">>,
     BadL |-> <<"B", "a", "d", "L">>, BadU |-> <<"B", "a", "d", "U">>,
     BadLU |-> <<"B", "a", "d", "L", "U">>, Mix |-> <<"M", "i", "x">>, d |-> <<"d">>,
     D |-> <<"D">>, LL |-> <<"L", "L">>, m |-> <<"m">>, B |-> <<"B">>,
     Node |-> <<"N", "o", "d", "e">>, next |-> <<"n", "e", "x", "t">>, E |-> <<"E">>,
     A |-> <<"A">>, Ok |-> <<"O", "k">>, Empty |-> <<"E", "m", "p", "t", "y">>,
     cpp |-> <<"c", "p", "p">>, foo |-> <<"f", "o", "o">>]

\* the Python string a sequence of characters spells; "?" for a word
\* outside the vocabulary of the source texts
Str(cs) ==
    IF \E w \in DOMAIN Spelling : Spelling[w] = cs
    THEN CHOOSE w \in DOMAIN Spelling : Spelling[w] = cs
    ELSE "?"

\* an identifier or keyword, from start to e
Identifier(s, start, e, word) ==
    IF word \in SKIP_STATEMENTS THEN SkipStatement(s, e)
    ELSE IF word \in NOT_IMPL
    THEN \* raise NotImplemented(...): NotImplemented is not callable
         Throw(e, Exception("TypeError", "'NotImplementedType' object is not callable", <<>>))
    ELSE Yield(Token(IF word \in DOMAIN KEYWORDS THEN KEYWORDS[word] ELSE "IDENT", start, e))

\* src[a.idx : b.idx]
Slice(s, a, b) == SubSeq(s, a.idx + 1, b.idx)

\* the characters from start on that belong to one word
WordFrom(s, start, e) == Identifier(s, start, e, Str(Slice(s, start, e)))

\* one pass of the main loop of all_tokens, c the character at p
Scan(s, p, c) ==
    IF c \in Blank THEN Continue(advance(s, p, 1))
    ELSE IF c = "/" /\ cur_char(s, p.idx + 1) = "/"
    THEN Continue(AdvanceUntil(s, advance(s, p, 2), {"\n"}))
    ELSE IF c = "/" /\ cur_char(s, p.idx + 1) = "*"
    THEN BlockComment(s, advance(s, p, 2))
    ELSE IF c = "@" THEN Annotation(s, advance(s, p, 1))
    ELSE IF isdigit(c) \/ (c \in {"+", "-"} /\ isdigit(cur_char(s, p.idx + 1)))
    THEN IntConst(s, p, IF c \in {"+", "-"} THEN advance(s, p, 1) ELSE p)
    ELSE IF isalpha(c) \/ c = "_"
    THEN WordFrom(s, p, AdvanceWhile(s, p, Letters \cup Digits \cup {"_"}))
    ELSE IF c \in DOMAIN punct_map
    THEN Yield(Token(punct_map[c], p, advance(s, p, 1)))
    ELSE Throw(p, ParseException("Unexpected character", p))

\* list(all_tokens(s)) from position p on: the tokens, or the exception
\* that ends the generator, or no end at all
RECURSIVE TokensFrom(_, _, _)
Lexed(toks, r) == [tokens |-> toks \o r.tok, exc |-> r.exc, spins |-> r.spins, p |-> r.p]

MoreTokens(s, l) ==
    IF l.exc.type # "none" \/ l.spins THEN l ELSE TokensFrom(s, l.p, l.tokens)

TokensFrom(s, p, toks) ==
    IF p.idx >= Len(s) THEN Lexed(toks, Continue(p))
    ELSE MoreTokens(s, Lexed(toks, Scan(s, p, s[p.idx + 1])))

all_tokens(s) == TokensFrom(s, Pos(0, 1, 1), <<>>)

\* int(text) and str(n) of decimal numerals
DigitChars == <<"0", "1", "2", "3", "4", "5", "6", "7", "8", "9">>

DigitValue(c) == (CHOOSE i \in 1..10 : DigitChars[i] = c) - 1

RECURSIVE Decimal(_)
Decimal(ds) ==
    IF ds = <<>> THEN 0
    ELSE Decimal(SubSeq(ds, 1, Len(ds) - 1)) * 10 + DigitValue(ds[Len(ds)])

int(cs) ==
    IF cs[1] = "-" THEN 0 - Decimal(Tail(cs))
    ELSE IF cs[1] = "+" THEN Decimal(Tail(cs))
    ELSE Decimal(cs)

RECURSIVE Numeral(_)
Numeral(n) ==
    IF n < 10 THEN <<DigitChars[n + 1]>>
    ELSE Numeral(n \div 10) \o <<DigitChars[(n % 10) + 1]>>

str(n) == IF n < 0 THEN <<"-">> \o Numeral(0 - n) ELSE Numeral(n)

---------------------------------------------------------------------------
(* parser.py: the recursive-descent Parser over the token list             *)

\* a Parser object: self.src, self.tokens, self.pos
Parser(s, toks, pos) == [src |-> s, tokens |-> toks, pos |-> pos]

\* what a method call comes to: the parser after it, and the value it
\* returns or the exception it raises
Res(self, val) == [self |-> self, val |-> val, exc |-> NoException]

Raised(self, e) == [self |-> self, val |-> <<>>, exc |-> e]

Failed(r) == r.exc.type # "none"

\* self.pos += 1
Bump(self) == [self EXCEPT !.pos = @ + 1]

\* Optional[Token] as a sequence of at most one token
peek(self) ==
    IF self.pos < Len(self.tokens) THEN <<self.tokens[self.pos + 1]>> ELSE <<>>

next(self) ==
    IF peek(self) = <<>>
    THEN Raised(self, ParseException("Unexpected end of input", Pos(-1, -1, -1)))
    ELSE Res(Bump(self), self.tokens[self.pos + 1])

\* the condition of match(tp); where it holds, match leaves Bump(self)
Matches(self, tp) == peek(self) # <<>> /\ self.tokens[self.pos + 1].tp = tp

match(self, tp) == IF Matches(self, tp) THEN Bump(self) ELSE self

Expected(r, tp) ==
    IF Failed(r) THEN r
    ELSE IF r.val.tp # tp THEN Raised(r.self, ParseException("Expected token", r.val.start))
    ELSE r

expect(self, tp) == Expected(next(self), tp)

text(self, tok) == Slice(self.src, tok.start, tok.end)

\* _ = self.match(COMMA) or self.match(SEMICOLON)
Separator(self) ==
    IF Matches(self, "COMMA") THEN Bump(self) ELSE match(self, "SEMICOLON")

\* peek() is the identifier `word`
PeekIdent(self, word) ==
    /\ Matches(self, "IDENT")
    /\ Str(text(self, self.tokens[self.pos + 1])) = word

TypeTokens ==
    {"BOOL", "BYTE", "I8", "I16", "I32", "I64", "DOUBLE", "STRING", "BINARY", "UUID"}

RECURSIVE parse_type(_)
ListDone(elem, r) == IF Failed(r) THEN r ELSE Res(r.self, ListType(elem))

ListClose(r) == IF Failed(r) THEN r ELSE ListDone(r.val, expect(r.self, "GT"))

ListElem(r) == IF Failed(r) THEN r ELSE ListClose(parse_type(r.self))

TypeName(r) ==
    IF Failed(r) THEN r
    ELSE IF r.val.tp \in TypeTokens \cup {"IDENT"}
    THEN Res(r.self, NamedType(Str(text(r.self, r.val))))
    ELSE Raised(r.self, ParseException("Expected a type", r.val.start))

parse_type(self) ==
    IF Matches(self, "LIST") THEN ListElem(expect(Bump(self), "LT"))
    ELSE TypeName(next(self))

\* parse_field, statement by statement
FieldDone(id, required, type, name, default, self) ==
    Res(Separator(self), Field(id, required, type, name, default))

DefaultValue(id, required, type, name, r) ==
    IF Failed(r) THEN r
    ELSE IF r.val.tp = "INT_CONST"
    THEN FieldDone(id, required, type, name, <<int(text(r.self, r.val))>>, r.self)
    ELSE IF r.val.tp = "IDENT"
    THEN FieldDone(id, required, type, name, <<Str(text(r.self, r.val))>>, r.self)
    ELSE Raised(r.self, ParseException("Expected constant or identifier for default",
                                        r.val.start))

FieldDefault(id, required, type, r) ==
    IF Failed(r) THEN r
    ELSE IF Matches(r.self, "EQUAL")
    THEN DefaultValue(id, required, type, Str(text(r.self, r.val)), next(Bump(r.self)))
    ELSE FieldDone(id, required, type, Str(text(r.self, r.val)), <<>>, r.self)

FieldName(id, required, r) ==
    IF Failed(r) THEN r ELSE FieldDefault(id, required, r.val, expect(r.self, "IDENT"))

FieldType(id, r) ==
    IF Failed(r) THEN r
    ELSE IF Matches(r.self, "REQUIRED") THEN FieldName(id, TRUE, parse_type(Bump(r.self)))
    ELSE FieldName(id, FALSE, parse_type(match(r.self, "OPTIONAL")))

FieldId(r) ==
    IF Failed(r) THEN r ELSE FieldType(int(text(r.self, r.val)), expect(r.self, "COLON"))

parse_field(self) == FieldId(expect(self, "INT_CONST"))

\* while not self.match(RBRACE): fields.append(self.parse_field())
RECURSIVE Fields(_, _)
FieldsMore(fields, r) ==
    IF Failed(r) THEN r ELSE Fields(r.self, Append(fields, r.val))

Fields(self, fields) ==
    IF Matches(self, "RBRACE") THEN Res(Bump(self), fields)
    ELSE FieldsMore(fields, parse_field(self))

\* the members of an enum, up to the closing brace
RECURSIVE Members(_, _)
MemberDone(members, name, value, self) ==
    Members(Separator(self), Append(members, EnumMember(name, value)))

MemberValue(members, name, r) ==
    IF Failed(r) THEN r ELSE MemberDone(members, name, <<int(text(r.self, r.val))>>, r.self)

MemberName(members, r) ==
    IF Failed(r) THEN r
    ELSE IF Matches(r.self, "EQUAL")
    THEN MemberValue(members, Str(text(r.self, r.val)), expect(Bump(r.self), "INT_CONST"))
    ELSE MemberDone(members, Str(text(r.self, r.val)), <<>>, r.self)

Members(self, members) ==
    IF Matches(self, "RBRACE") THEN Res(Bump(self), members)
    ELSE MemberName(members, expect(self, "IDENT"))

EnumDone(name, r) == IF Failed(r) THEN r ELSE Res(r.self, EnumDef(name, r.val))

EnumBody(name, r) == IF Failed(r) THEN r ELSE EnumDone(name, Members(r.self, <<>>))

EnumName(r) ==
    IF Failed(r) THEN r ELSE EnumBody(Str(text(r.self, r.val)), expect(r.self, "LBRACE"))

EnumKeyword(r) == IF Failed(r) THEN r ELSE EnumName(expect(r.self, "IDENT"))

parse_enum(self) == EnumKeyword(expect(self, "ENUM"))

\* if peek() is the identifier xsd_all: self.next()
SkipXsdAll(self) == IF PeekIdent(self, "xsd_all") THEN Bump(self) ELSE self

StructDone(name, r) == IF Failed(r) THEN r ELSE Res(r.self, StructDef(name, r.val))

StructBody(name, r) == IF Failed(r) THEN r ELSE StructDone(name, Fields(r.self, <<>>))

StructExtends(name, self) ==
    IF Matches(self, "EXTENDS")
    THEN Raised(Bump(self), Exception("NotImplementedError", "extends not supported", <<>>))
    ELSE StructBody(name, expect(self, "LBRACE"))

StructName(r) ==
    IF Failed(r) THEN r ELSE StructExtends(Str(text(r.self, r.val)), SkipXsdAll(r.self))

StructKeyword(r) == IF Failed(r) THEN r ELSE StructName(expect(r.self, "IDENT"))

parse_struct(self) == StructKeyword(expect(self, "STRUCT"))

UnionDone(name, r) == IF Failed(r) THEN r ELSE Res(r.self, UnionDef(name, r.val))

UnionBody(name, r) == IF Failed(r) THEN r ELSE UnionDone(name, Fields(r.self, <<>>))

UnionName(r) ==
    IF Failed(r) THEN r
    ELSE UnionBody(Str(text(r.self, r.val)), expect(SkipXsdAll(r.self), "LBRACE"))

UnionKeyword(r) == IF Failed(r) THEN r ELSE UnionName(expect(r.self, "IDENT"))

parse_union(self) == UnionKeyword(expect(self, "UNION"))

\* called with a token to peek at
parse_definition(self) ==
    IF Matches(self, "ENUM") THEN parse_enum(self)
    ELSE IF Matches(self, "STRUCT") THEN parse_struct(self)
    ELSE IF Matches(self, "UNION") THEN parse_union(self)
    ELSE Raised(self, ParseException("Expected enum/struct/union",
                                     self.tokens[self.pos + 1].start))

\* one pass of the loop of Parser.parse: the definitions it appends
NamespaceDone(r) == IF Failed(r) THEN r ELSE Res(r.self, <<>>)

NamespaceScope(r) == IF Failed(r) THEN r ELSE NamespaceDone(expect(r.self, "IDENT"))

DefinitionDone(r) == IF Failed(r) THEN r ELSE Res(Separator(r.self), <<r.val>>)

ParsePass(self) ==
    IF PeekIdent(self, "namespace")
    THEN NamespaceScope(expect(Bump(self), "IDENT"))
    ELSE DefinitionDone(parse_definition(self))

\* Parser(s).parse() from the parser state self on, defs parsed so far
RECURSIVE ParseFrom(_, _)
ParseMore(defs, r) ==
    IF Failed(r) THEN r ELSE ParseFrom(r.self, defs \o r.val)

ParseFrom(self, defs) ==
    IF peek(self) = <<>> THEN Res(self, IDLFile(defs))
    ELSE ParseMore(defs, ParsePass(self))

\* Parser(s).parse() on a text the tokenizer accepts
parse(s) == ParseFrom(Parser(s, all_tokens(s).tokens, 0), <<>>)

---------------------------------------------------------------------------
(* code_gen.py: constant tables                                            *)

BASIC_NAMED_TO_TTYPE ==
    [bool |-> "BOOL", double |-> "DOUBLE", string |-> "STRING",
     binary |-> "STRING", i8 |-> "BYTE", i16 |-> "I16", i32 |-> "I32",
     i64 |-> "I64"]

TTYPE_TO_CMD ==
    [BYTE |-> "I08", I16 |-> "I16", I32 |-> "I32", I64 |-> "I64",
     BOOL |-> "Bool", STRING |-> "Binary", DOUBLE |-> "TODO_NOT_IMPLEMENTED"]

TTYPE_TO_READFN ==
    [BYTE |-> "readI08", I16 |-> "readI16", I32 |-> "readI32",
     I64 |-> "readI64", BOOL |-> "readBool", DOUBLE |-> "readDouble"]

SAMPLE_LITERALS == {"bool", "i8", "i16", "i32", "i64", "string", "binary"}

Raise(e) == [err |-> e]

IsErr(r) == r.err # "none"

\* the first exception raised while evaluating rs[1], rs[2], ... in order
FirstErr(rs) ==
    IF \E i \in 1..Len(rs) : IsErr(rs[i])
    THEN rs[CHOOSE i \in 1..Len(rs) :
                IsErr(rs[i]) /\ \A j \in 1..(i-1) : ~IsErr(rs[j])].err
    ELSE "none"

get_list_elem_type(list_t) == list_t.elem_type

\* CodeGenerator.__init__: name -> definition, a later definition replacing
\* an earlier one of the same name
DefsMap(file) ==
    LET ds == file.definitions
    IN  [n \in {ds[i].name : i \in 1..Len(ds)} |->
            ds[CHOOSE i \in 1..Len(ds) :
                  ds[i].name = n /\ \A j \in (i+1)..Len(ds) : ds[j].name # n]]

\* classify_type that classifies an enum reference like a struct reference
classify_type_enum_as_struct(t, dm) ==
    IF t.k = "NamedType"
    THEN IF t.name \in DOMAIN BASIC_NAMED_TO_TTYPE
         THEN [err |-> "none", ttype |-> BASIC_NAMED_TO_TTYPE[t.name], is_enum |-> FALSE]
         ELSE IF t.name \notin DOMAIN dm THEN Raise("KeyError")
         ELSE IF dm[t.name].k \in {"StructDef", "UnionDef", "EnumDef"}
         THEN [err |-> "none", ttype |-> "STRUCT", is_enum |-> FALSE]
         ELSE Raise("NotImplementedError")
    ELSE Raise("NotImplementedError")

classify_type(t, dm) ==
    IF t.k = "NamedType"
    THEN IF t.name \in DOMAIN BASIC_NAMED_TO_TTYPE
         THEN [err |-> "none", ttype |-> BASIC_NAMED_TO_TTYPE[t.name], is_enum |-> FALSE]
         ELSE IF t.name \notin DOMAIN dm THEN Raise("KeyError")
         ELSE IF dm[t.name].k \in {"StructDef", "UnionDef"}
         THEN [err |-> "none", ttype |-> "STRUCT", is_enum |-> FALSE]
         ELSE IF dm[t.name].k = "EnumDef"
         THEN [err |-> "none", ttype |-> "I32", is_enum |-> TRUE]
         ELSE Raise("NotImplementedError")
    ELSE Raise("NotImplementedError")

classify_list_elem_type(elem_t, dm) ==
    IF elem_t.k = "NamedType"
    THEN IF elem_t.name \in DOMAIN BASIC_NAMED_TO_TTYPE
         THEN [err |-> "none", ttype |-> BASIC_NAMED_TO_TTYPE[elem_t.name], is_enum |-> FALSE]
         ELSE IF elem_t.name \notin DOMAIN dm THEN Raise("KeyError")
         ELSE IF dm[elem_t.name].k \in {"StructDef", "UnionDef"}
         THEN [err |-> "none", ttype |-> "STRUCT", is_enum |-> FALSE]
         ELSE IF dm[elem_t.name].k = "EnumDef"
         THEN [err |-> "none", ttype |-> "I32", is_enum |-> TRUE]
         ELSE Raise("NotImplementedError")
    ELSE Raise("NotImplementedError")

\* the emitted payload statement: writer.write(.{ .<cmd> = value }), with
\* @intFromEnum for an enum, or value.write(writer) for a struct/union
emit_write_payload(ttype, is_enum) ==
    IF is_enum THEN [err |-> "none", cmd |-> "I32", conv |-> "intFromEnum"]
    ELSE IF ttype \in DOMAIN TTYPE_TO_CMD
    THEN IF TTYPE_TO_CMD[ttype] = "TODO_NOT_IMPLEMENTED"
         THEN Raise("NotImplementedError")
         ELSE [err |-> "none", cmd |-> TTYPE_TO_CMD[ttype], conv |-> "direct"]
    ELSE IF ttype = "STRUCT"
    THEN [err |-> "none", cmd |-> "write", conv |-> "delegate"]
    ELSE Raise("NotImplementedError")

\* emit_write_list_field with the ListEnd statement forgotten
emit_write_list_field_no_end(field_name, elem_ttype, elem_is_enum) ==
    LET p == emit_write_payload(elem_ttype, elem_is_enum)
    IN  IF IsErr(p) THEN p
        ELSE [err |-> "none", name |-> field_name, tp |-> "LIST", list |-> TRUE,
              elem_type |-> elem_ttype, payload |-> p,
              stmts |-> <<"FieldBegin", "ListBegin", "items", "FieldEnd">>]

\* the emitted statements of one list field: FieldBegin(LIST, fid),
\* ListBegin(elem_ttype, items.len), the items, ListEnd, FieldEnd
emit_write_list_field(field_name, elem_ttype, elem_is_enum) ==
    LET p == emit_write_payload(elem_ttype, elem_is_enum)
    IN  IF IsErr(p) THEN p
        ELSE [err |-> "none", name |-> field_name, tp |-> "LIST", list |-> TRUE,
              elem_type |-> elem_ttype, payload |-> p,
              stmts |-> <<"FieldBegin", "ListBegin", "items", "ListEnd", "FieldEnd">>]

\* write_field that stamps a list field with the tag of its elements
write_field_elem_tag(f, dm) ==
    IF f.type.k = "ListType"
    THEN LET c == classify_list_elem_type(get_list_elem_type(f.type), dm)
         IN  IF IsErr(c) THEN c
             ELSE LET w == emit_write_list_field(f.name, c.ttype, c.is_enum)
                  IN  IF IsErr(w) THEN w
                      ELSE [w EXCEPT !.tp = c.ttype] @@ [guard |-> ~f.required]
    ELSE LET c == classify_type(f.type, dm)
         IN  IF IsErr(c) THEN c
             ELSE LET p == emit_write_payload(c.ttype, c.is_enum)
                  IN  IF IsErr(p) THEN p
                      ELSE [err |-> "none", name |-> f.name, tp |-> c.ttype,
                            list |-> FALSE, elem_type |-> "", payload |-> p,
                            stmts |-> <<"FieldBegin", "payload", "FieldEnd">>,
                            guard |-> ~f.required]

write_field(f, dm) ==
    IF f.type.k = "ListType"
    THEN LET c == classify_list_elem_type(get_list_elem_type(f.type), dm)
         IN  IF IsErr(c) THEN c
             ELSE LET w == emit_write_list_field(f.name, c.ttype, c.is_enum)
                  IN  IF IsErr(w) THEN w ELSE w @@ [guard |-> ~f.required]
    ELSE LET c == classify_type(f.type, dm)
         IN  IF IsErr(c) THEN c
             ELSE LET p == emit_write_payload(c.ttype, c.is_enum)
                  IN  IF IsErr(p) THEN p
                      ELSE [err |-> "none", name |-> f.name, tp |-> c.ttype,
                            list |-> FALSE, elem_type |-> "", payload |-> p,
                            stmts |-> <<"FieldBegin", "payload", "FieldEnd">>,
                            guard |-> ~f.required]


NoItem == [err |-> "none", kind |-> "none", readfn |-> "", T |-> ""]

\* the emitted statements that read one list item and append it
emit_read_list_item_lines(elem_t, dm) ==
    IF elem_t.k = "NamedType"
    THEN IF elem_t.name \in DOMAIN BASIC_NAMED_TO_TTYPE
            /\ BASIC_NAMED_TO_TTYPE[elem_t.name] = "STRING"
         THEN [err |-> "none", kind |-> "string", readfn |-> "readBinary", T |-> ""]
         ELSE IF elem_t.name \in DOMAIN BASIC_NAMED_TO_TTYPE
                 /\ BASIC_NAMED_TO_TTYPE[elem_t.name] \in DOMAIN TTYPE_TO_READFN
         THEN [err |-> "none", kind |-> "basic",
               readfn |-> TTYPE_TO_READFN[BASIC_NAMED_TO_TTYPE[elem_t.name]], T |-> ""]
         ELSE IF elem_t.name \in DOMAIN dm /\ dm[elem_t.name].k = "EnumDef"
         THEN [err |-> "none", kind |-> "enum", readfn |-> "readI32", T |-> elem_t.name]
         ELSE IF elem_t.name \in DOMAIN dm /\ dm[elem_t.name].k \in {"StructDef", "UnionDef"}
         THEN [err |-> "none", kind |-> "catch", readfn |-> "readCatchThrift", T |-> elem_t.name]
         ELSE Raise("NotImplementedError")
    ELSE Raise("NotImplementedError")

\* one case of the struct reader's switch: the wire type it requires (tp)
\* and what it does when field.tp matches; kind "skip" is the bare
\* `continue :sw .default`
emit_read_field_case(f, dm) ==
    IF f.type.k = "NamedType" /\ f.type.name \in DOMAIN BASIC_NAMED_TO_TTYPE
       /\ BASIC_NAMED_TO_TTYPE[f.type.name] = "STRING"
    THEN [err |-> "none", name |-> f.name, kind |-> "string", tp |-> "STRING",
          readfn |-> "readBinary", T |-> "", item |-> NoItem]
    ELSE IF f.type.k = "NamedType" /\ f.type.name \in DOMAIN BASIC_NAMED_TO_TTYPE
            /\ BASIC_NAMED_TO_TTYPE[f.type.name] \in DOMAIN TTYPE_TO_READFN
    THEN [err |-> "none", name |-> f.name, kind |-> "basic",
          tp |-> BASIC_NAMED_TO_TTYPE[f.type.name],
          readfn |-> TTYPE_TO_READFN[BASIC_NAMED_TO_TTYPE[f.type.name]],
          T |-> "", item |-> NoItem]
    ELSE IF f.type.k = "NamedType" /\ f.type.name \in DOMAIN dm
            /\ dm[f.type.name].k = "EnumDef"
    THEN [err |-> "none", name |-> f.name, kind |-> "enum", tp |-> "I32",
          readfn |-> "readI32", T |-> f.type.name, item |-> NoItem]
    ELSE IF f.type.k = "NamedType" /\ f.type.name \in DOMAIN dm
            /\ dm[f.type.name].k \in {"StructDef", "UnionDef"}
    THEN [err |-> "none", name |-> f.name, kind |-> "catch", tp |-> "STRUCT",
          readfn |-> "readCatchThrift", T |-> f.type.name, item |-> NoItem]
    ELSE IF f.type.k = "ListType"
    THEN LET it == emit_read_list_item_lines(get_list_elem_type(f.type), dm)
         IN  IF IsErr(it) THEN it
             ELSE [err |-> "none", name |-> f.name, kind |-> "list", tp |-> "LIST",
                   readfn |-> "readListBegin", T |-> "", item |-> it]
    ELSE [err |-> "none", name |-> f.name, kind |-> "skip", tp |-> "",
          readfn |-> "", T |-> "", item |-> NoItem]

\* one case of the union reader's switch; lists and anything else fall to
\* the bare `continue :sw .default`
emit_read_union_field_case(f, dm) ==
    IF f.type.k = "NamedType" /\ f.type.name \in DOMAIN BASIC_NAMED_TO_TTYPE
       /\ BASIC_NAMED_TO_TTYPE[f.type.name] = "STRING"
    THEN [err |-> "none", name |-> f.name, kind |-> "string", tp |-> "STRING",
          readfn |-> "readBinary", T |-> "", item |-> NoItem]
    ELSE IF f.type.k = "NamedType" /\ f.type.name \in DOMAIN BASIC_NAMED_TO_TTYPE
            /\ BASIC_NAMED_TO_TTYPE[f.type.name] \in DOMAIN TTYPE_TO_READFN
    THEN [err |-> "none", name |-> f.name, kind |-> "basic",
          tp |-> BASIC_NAMED_TO_TTYPE[f.type.name],
          readfn |-> TTYPE_TO_READFN[BASIC_NAMED_TO_TTYPE[f.type.name]],
          T |-> "", item |-> NoItem]
    ELSE IF f.type.k = "NamedType" /\ f.type.name \in DOMAIN dm
            /\ dm[f.type.name].k = "EnumDef"
    THEN [err |-> "none", name |-> f.name, kind |-> "enum", tp |-> "I32",
          readfn |-> "readI32", T |-> f.type.name, item |-> NoItem]
    ELSE IF f.type.k = "NamedType" /\ f.type.name \in DOMAIN dm
            /\ dm[f.type.name].k \in {"StructDef", "UnionDef"}
    THEN [err |-> "none", name |-> f.name, kind |-> "catch", tp |-> "STRUCT",
          readfn |-> "readCatchThrift", T |-> f.type.name, item |-> NoItem]
    ELSE [err |-> "none", name |-> f.name, kind |-> "skip", tp |-> "",
          readfn |-> "", T |-> "", item |-> NoItem]

\* what is emitted to release one list item / union payload:
\* alloc.free, <T>.deinit, or nothing
emit_deinit_for_elem(elem_t, dm) ==
    IF elem_t.k = "NamedType" /\ elem_t.name \in {"string", "binary"}
    THEN [kind |-> "free", T |-> ""]
    ELSE IF elem_t.k = "NamedType" /\ elem_t.name \in DOMAIN dm
            /\ dm[elem_t.name].k \in {"StructDef", "UnionDef"}
    THEN [kind |-> "deinit", T |-> elem_t.name]
    ELSE [kind |-> "none", T |-> ""]

\* what is emitted to release one struct field (an optional field is
\* released only when it is non-null)
emit_deinit_for_field(f, dm) ==
    IF f.type.k = "NamedType" /\ f.type.name \in {"string", "binary"}
    THEN [name |-> f.name, kind |-> "free", T |-> "", opt |-> ~f.required,
          elem |-> [kind |-> "none", T |-> ""]]
    ELSE IF f.type.k = "NamedType" /\ f.type.name \in DOMAIN dm
            /\ dm[f.type.name].k \in {"StructDef", "UnionDef"}
    THEN [name |-> f.name, kind |-> "deinit", T |-> f.type.name, opt |-> ~f.required,
          elem |-> [kind |-> "none", T |-> ""]]
    ELSE IF f.type.k = "ListType"
    THEN [name |-> f.name, kind |-> "list", T |-> "", opt |-> ~f.required,
          elem |-> emit_deinit_for_elem(get_list_elem_type(f.type), dm)]
    ELSE [name |-> f.name, kind |-> "none", T |-> "", opt |-> ~f.required,
          elem |-> [kind |-> "none", T |-> ""]]

\* errdefer { if (isset.f) { release obj.f } } for every field
emit_errdefer_cleanup(struct_def, dm) ==
    [i \in 1..Len(struct_def.fields) |-> emit_deinit_for_field(struct_def.fields[i], dm)]

---------------------------------------------------------------------------
(* code_gen.py: CodeGenerator                                              *)

\* the FieldTag enum of a struct/union: field name -> field id
FieldTags(fields) == [i \in 1..Len(fields) |-> [name |-> fields[i].name, id |-> fields[i].id]]

\* validate(): the required fields, each checked with `if (!is.f) return
\* ThriftError.RequiredFieldMissing`
RequiredNames(fields) ==
    LET req == SelectSeq(fields, LAMBDA f : f.required)
    IN  [i \in 1..Len(req) |-> req[i].name]

generate_struct(struct_def, dm) ==
    LET fs == struct_def.fields
        write_calls == [i \in 1..Len(fs) |-> write_field(fs[i], dm)]
        field_cases == [i \in 1..Len(fs) |-> emit_read_field_case(fs[i], dm)]
    IN  IF FirstErr(write_calls) # "none" THEN Raise(FirstErr(write_calls))
        ELSE IF FirstErr(field_cases) # "none" THEN Raise(FirstErr(field_cases))
        ELSE [err |-> "none", k |-> "struct", name |-> struct_def.name,
              field_tags |-> FieldTags(fs),
              write_calls |-> write_calls,
              validate |-> RequiredNames(fs),
              field_cases |-> field_cases,
              init |-> [i \in 1..Len(fs) |->
                          [name |-> fs[i].name,
                           init |-> IF fs[i].required THEN "undefined" ELSE "null"]],
              errdefer |-> emit_errdefer_cleanup(struct_def, dm),
              deinit |-> [i \in 1..Len(fs) |-> emit_deinit_for_field(fs[i], dm)]]

\* one case of the union writer's switch; the case of a list alternative
\* has an empty body
union_write_case(f, dm) ==
    IF f.type.k = "ListType"
    THEN [err |-> "none", name |-> f.name, tp |-> "", list |-> TRUE, elem_type |-> "",
          payload |-> [err |-> "none", cmd |-> "", conv |-> ""], stmts |-> <<>>,
          guard |-> FALSE]
    ELSE LET c == classify_type(f.type, dm)
         IN  IF IsErr(c) THEN c
             ELSE LET p == emit_write_payload(c.ttype, c.is_enum)
                  IN  IF IsErr(p) THEN p
                      ELSE [err |-> "none", name |-> f.name, tp |-> c.ttype,
                            list |-> FALSE, elem_type |-> "", payload |-> p,
                            stmts |-> <<"FieldBegin", "payload", "FieldEnd">>,
                            guard |-> FALSE]

generate_union(union_def, dm) ==
    LET fs == union_def.fields
        write_cases == [i \in 1..Len(fs) |-> union_write_case(fs[i], dm)]
        field_cases == [i \in 1..Len(fs) |-> emit_read_union_field_case(fs[i], dm)]
    IN  IF FirstErr(write_cases) # "none" THEN Raise(FirstErr(write_cases))
        ELSE [err |-> "none", k |-> "union", name |-> union_def.name,
              field_tags |-> FieldTags(fs),
              write_calls |-> write_cases,
              validate |-> <<>>,
              field_cases |-> field_cases,
              init |-> <<>>,
              errdefer |-> <<>>,
              deinit |-> [i \in 1..Len(fs) |->
                            [name |-> fs[i].name, kind |-> "payload", T |-> "",
                             opt |-> FALSE,
                             elem |-> emit_deinit_for_elem(fs[i].type, dm)]]]

\* generate_enum numbering nothing and refusing nothing: every member is
\* emitted, with or without a value
generate_enum_any(enum_def) ==
    [err |-> "none", k |-> "enum", name |-> enum_def.name]

generate_enum(enum_def) ==
    IF \E i \in 1..Len(enum_def.members) : enum_def.members[i].value = <<>>
    THEN Raise("NotImplementedError")
    ELSE [err |-> "none", k |-> "enum", name |-> enum_def.name]

generate_definition(definition, dm) ==
    IF definition.k = "StructDef" THEN generate_struct(definition, dm)
    ELSE IF definition.k = "EnumDef" THEN generate_enum(definition)
    ELSE generate_union(definition, dm)

RECURSIVE sample_value(_, _, _)
RECURSIVE gen_struct_value(_, _, _)
RECURSIVE gen_union_value(_, _, _)
\* The exception _sample_value(t) ends with, "none" if it returns a literal.
\* `seen` holds the definitions whose sample is being built further up the
\* call stack: meeting one again is the unbounded recursion Python ends
\* with RecursionError.
sample_value(t, dm, seen) ==
    IF t.k = "NamedType"
    THEN IF t.name \in SAMPLE_LITERALS THEN "none"
         ELSE IF t.name \notin DOMAIN dm THEN "KeyError"
         ELSE IF dm[t.name].k = "StructDef" THEN gen_struct_value(dm[t.name], dm, seen)
         ELSE IF dm[t.name].k = "EnumDef"
         THEN IF Len(dm[t.name].members) = 0 THEN "IndexError" ELSE "none"
         ELSE gen_union_value(dm[t.name], dm, seen)
    ELSE "none"

gen_struct_value(definition, dm, seen) ==
    IF definition.name \in seen THEN "RecursionError"
    ELSE LET fs == definition.fields
         IN  FirstErr([i \in 1..Len(fs) |->
                 [err |-> sample_value(fs[i].type, dm, seen \cup {definition.name})]])

gen_union_value(definition, dm, seen) ==
    IF definition.name \in seen THEN "RecursionError"
    ELSE IF Len(definition.fields) = 0 THEN "IndexError"
    ELSE sample_value(definition.fields[1].type, dm, seen \cup {definition.name})

\* the exception raised while filling the list fields of a sample struct
gen_fill_list_fields(definition, dm) ==
    LET fs == definition.fields
    IN  FirstErr([i \in 1..Len(fs) |->
            [err |-> IF fs[i].type.k = "ListType"
                     THEN sample_value(get_list_elem_type(fs[i].type), dm, {})
                     ELSE "none"]])

\* the exception _generate_test_block ends with, "none" if it returns
generate_test_block(file, dm) ==
    LET ds == file.definitions
    IN  FirstErr([i \in 1..Len(ds) |->
            [err |-> IF ds[i].k = "StructDef"
                     THEN IF gen_struct_value(ds[i], dm, {}) # "none"
                          THEN gen_struct_value(ds[i], dm, {})
                          ELSE gen_fill_list_fields(ds[i], dm)
                     ELSE IF ds[i].k = "UnionDef" THEN gen_union_value(ds[i], dm, {})
                     ELSE "none"]])

---------------------------------------------------------------------------
(* Values of the generated Zig types.  `a` is the allocation a string's    *)
(* buffer or a list's backing storage lives in (0: none, a literal).       *)

Null == [k |-> "null"]

Undefined == [k |-> "undefined"]

IntV(n) == [k |-> "int", n |-> n]

BytesV(n, a) == [k |-> "bytes", n |-> n, a |-> a]

ListV(items, a) == [k |-> "list", items |-> items, a |-> a]

StructV(T, fs) == [k |-> "struct", T |-> T, fs |-> fs]

UnionV(T, alt, p) == [k |-> "union", T |-> T, alt |-> alt, p |-> p]

\* the value the literal returned by _sample_value denotes, for a type whose
\* sample is generated without an exception: a fixed literal for a scalar,
\* the first member for an enum, an empty list for a list
RECURSIVE SampleValue(_, _)
SampleValue(t, dm) ==
    IF t.k = "ListType" THEN ListV(<<>>, 0)
    ELSE IF t.name \in {"string", "binary"} THEN BytesV(1, 0)
    ELSE IF t.name \in SAMPLE_LITERALS THEN IntV(1)
    ELSE IF dm[t.name].k = "EnumDef" THEN IntV(dm[t.name].members[1].value[1])
    ELSE IF dm[t.name].k = "StructDef"
    THEN StructV(t.name,
                 [n \in {dm[t.name].fields[i].name : i \in 1..Len(dm[t.name].fields)} |->
                     LET f == dm[t.name].fields[
                                 CHOOSE i \in 1..Len(dm[t.name].fields) :
                                    dm[t.name].fields[i].name = n]
                     IN  IF f.required THEN SampleValue(f.type, dm) ELSE Null])
    ELSE UnionV(t.name, dm[t.name].fields[1].name,
                SampleValue(dm[t.name].fields[1].type, dm))

\* the struct value after the statements of _gen_fill_list_fields: every
\* list field of the struct itself is given two samples of its element
FillListFields(v, definition, dm) ==
    StructV(v.T,
            [n \in DOMAIN v.fs |->
                LET f == definition.fields[CHOOSE i \in 1..Len(definition.fields) :
                                              definition.fields[i].name = n]
                IN  IF f.type.k = "ListType"
                    THEN ListV(<<SampleValue(get_list_elem_type(f.type), dm),
                                 SampleValue(get_list_elem_type(f.type), dm)>>, 0)
                    ELSE v.fs[n]])

\* the value the test block writes for a struct or union definition
TestValue(definition, dm) ==
    IF definition.k = "StructDef"
    THEN FillListFields(SampleValue(NamedType(definition.name), dm), definition, dm)
    ELSE SampleValue(NamedType(definition.name), dm)

---------------------------------------------------------------------------
(* TCompactProtocol Writer/Reader at the level of frames (spec.md, 6)      *)

Frame(t, tp, n, v) == [t |-> t, tp |-> tp, n |-> n, v |-> v]

StructBegin == Frame("StructBegin", "", 0, 0)

StructEnd == Frame("StructEnd", "", 0, 0)

FieldBegin(tp, fid) == Frame("FieldBegin", tp, fid, 0)

FieldEnd == Frame("FieldEnd", "", 0, 0)

FieldStop == Frame("FieldStop", "", 0, 0)

ListBegin(elem_type, size) == Frame("ListBegin", elem_type, size, 0)

ListEnd == Frame("ListEnd", "", 0, 0)

Data(cmd, v) == Frame(cmd, "", 0, v)

RECURSIVE Flatten(_)
Flatten(ss) == IF ss = <<>> THEN <<>> ELSE Head(ss) \o Flatten(Tail(ss))

\* the generated code of a definition of the file being compiled
Gen(name) == parts[CHOOSE i \in 1..Len(parts) : parts[i].name = name]

\* @intFromEnum(FieldTag.<name>)
Fid(g, name) ==
    g.field_tags[CHOOSE i \in 1..Len(g.field_tags) : g.field_tags[i].name = name].id

RECURSIVE write(_, _)
\* one emitted payload statement, run on value v
WritePayload(p, v) ==
    IF p.conv = "delegate" THEN write(v.T, v)
    ELSE <<Data(p.cmd, v.n)>>

\* one emitted statement of a field's write, run on the field's value v
WriteStmt(g, wc, v, stmt) ==
    IF stmt = "FieldBegin" THEN <<FieldBegin(wc.tp, Fid(g, wc.name))>>
    ELSE IF stmt = "payload" THEN WritePayload(wc.payload, v)
    ELSE IF stmt = "FieldEnd" THEN <<FieldEnd>>
    ELSE IF stmt = "ListBegin" THEN <<ListBegin(wc.elem_type, Len(v.items))>>
    ELSE IF stmt = "items"
    THEN Flatten([i \in 1..Len(v.items) |-> WritePayload(wc.payload, v.items[i])])
    ELSE <<ListEnd>>

\* WriteCall with the guard around the payload only: the header and the
\* end marker of an absent optional field are still written
WriteCallHeaderAlways(g, wc, v) ==
    IF wc.guard /\ v.k = "null" THEN <<FieldBegin(wc.tp, Fid(g, wc.name)), FieldEnd>>
    ELSE Flatten([i \in 1..Len(wc.stmts) |-> WriteStmt(g, wc, v, wc.stmts[i])])

\* the emitted statements of one field; `if (self.f) |value|` guards an
\* optional field
WriteCall(g, wc, v) ==
    IF wc.guard /\ v.k = "null" THEN <<>>
    ELSE Flatten([i \in 1..Len(wc.stmts) |-> WriteStmt(g, wc, v, wc.stmts[i])])

\* the generated write method of struct/union `name`, run on value v
write(name, v) ==
    LET g == Gen(name)
    IN  IF g.k = "struct"
        THEN <<StructBegin>>
             \o Flatten([i \in 1..Len(g.write_calls) |->
                           WriteCall(g, g.write_calls[i], v.fs[g.write_calls[i].name])])
             \o <<FieldStop, StructEnd>>
        ELSE <<StructBegin>>
             \o Flatten([i \in 1..Len(g.write_calls) |->
                           IF g.write_calls[i].name = v.alt
                           THEN WriteCall(g, g.write_calls[i], v.p)
                           ELSE <<>>])
             \o <<FieldStop, StructEnd>>


\* Reader state and allocator: the next frame to read, the next allocation
\* id, the allocations not yet freed, and whether memory was misused (a
\* free of something not allocated, or a release of undefined memory)
Heap0 == [pos |-> 1, nxt |-> 1, live |-> {}, bad |-> FALSE]

Peek(w, h) == IF h.pos <= Len(w) THEN w[h.pos] ELSE Frame("EOF", "", 0, 0)

DecodeError(w, h) == IF h.pos > Len(w) THEN "EndOfStream" ELSE "InvalidData"

Ret(val, h) == [err |-> "none", val |-> val, h |-> h]

Err(e, h) == [err |-> e, val |-> Null, h |-> h]

\* read one frame of kind t
Expect(t, w, h) ==
    IF Peek(w, h).t = t THEN Ret(Peek(w, h), [h EXCEPT !.pos = @ + 1])
    ELSE Err(DecodeError(w, h), h)

readStructBegin(w, h) == Expect("StructBegin", w, h)

readStructEnd(w, h) == Expect("StructEnd", w, h)

readFieldEnd(w, h) == Expect("FieldEnd", w, h)

readListEnd(w, h) == Expect("ListEnd", w, h)

readFieldBegin(w, h) ==
    IF Peek(w, h).t = "FieldStop"
    THEN Ret([k |-> "field", tp |-> "STOP", fid |-> 0], [h EXCEPT !.pos = @ + 1])
    ELSE IF Peek(w, h).t = "FieldBegin"
    THEN Ret([k |-> "field", tp |-> Peek(w, h).tp, fid |-> Peek(w, h).n],
             [h EXCEPT !.pos = @ + 1])
    ELSE Err(DecodeError(w, h), h)

readListBegin(w, h) ==
    IF Peek(w, h).t = "ListBegin"
    THEN Ret([elem_type |-> Peek(w, h).tp, size |-> Peek(w, h).n], [h EXCEPT !.pos = @ + 1])
    ELSE Err(DecodeError(w, h), h)

\* the frame each primitive read method decodes
READFN_TO_CMD ==
    [readI08 |-> "I08", readI16 |-> "I16", readI32 |-> "I32", readI64 |-> "I64",
     readBool |-> "Bool", readDouble |-> "Double"]

\* the payload frame of each scalar wire type
TTYPE_TO_FRAME ==
    [BOOL |-> "Bool", BYTE |-> "I08", I16 |-> "I16", I32 |-> "I32", I64 |-> "I64",
     DOUBLE |-> "Double", STRING |-> "Binary"]

readScalar(readfn, w, h) ==
    LET r == Expect(READFN_TO_CMD[readfn], w, h)
    IN  IF IsErr(r) THEN r ELSE Ret(IntV(r.val.v), r.h)

Alloc(h) == [h EXCEPT !.nxt = @ + 1, !.live = @ \cup {h.nxt}]

Free(h, a) == IF a \in h.live THEN [h EXCEPT !.live = @ \ {a}] ELSE [h EXCEPT !.bad = TRUE]

\* readBinary(alloc): the bytes, in a buffer allocated for them
readBinary(w, h) ==
    LET r == Expect("Binary", w, h)
    IN  IF IsErr(r) THEN r ELSE Ret(BytesV(r.val.v, h.nxt), Alloc(r.h))

RECURSIVE skip(_, _, _)
RECURSIVE SkipFields(_, _)
RECURSIVE SkipItems(_, _, _, _)
\* Reader.skip(tag): consume one payload of wire type tp, uninterpreted
skip(tp, w, h) ==
    IF tp \in DOMAIN TTYPE_TO_FRAME THEN Expect(TTYPE_TO_FRAME[tp], w, h)
    ELSE IF tp = "STRUCT"
    THEN LET b == readStructBegin(w, h)
         IN  IF IsErr(b) THEN b ELSE SkipFields(w, b.h)
    ELSE IF tp = "LIST"
    THEN LET m == readListBegin(w, h)
         IN  IF IsErr(m) THEN m ELSE SkipItems(m.val.elem_type, m.val.size, w, m.h)
    ELSE Err("InvalidData", h)

SkipFields(w, h) ==
    LET f == readFieldBegin(w, h)
    IN  IF IsErr(f) THEN f
        ELSE IF f.val.tp = "STOP" THEN readStructEnd(w, f.h)
        ELSE LET s == skip(f.val.tp, w, f.h)
             IN  IF IsErr(s) THEN s
                 ELSE LET e == readFieldEnd(w, s.h)
                      IN  IF IsErr(e) THEN e ELSE SkipFields(w, e.h)

SkipItems(tp, n, w, h) ==
    IF n = 0 THEN readListEnd(w, h)
    ELSE LET s == skip(tp, w, h)
         IN  IF IsErr(s) THEN s ELSE SkipItems(tp, n - 1, w, s.h)

---------------------------------------------------------------------------
(* The generated deinit methods and the errdefer block                     *)

RECURSIVE deinit(_, _, _)
RECURSIVE DeinitItems(_, _, _)
RECURSIVE DeinitFields(_, _, _, _)

\* alloc.free(x) / x.deinit(alloc) on a list item or a union payload
DeinitElem(e, v, h) ==
    IF e.kind = "none" THEN h
    ELSE IF v.k = "undefined" THEN [h EXCEPT !.bad = TRUE]
    ELSE IF e.kind = "free" THEN Free(h, v.a)
    ELSE deinit(e.T, v, h)

DeinitItems(e, items, h) ==
    IF items = <<>> THEN h
    ELSE DeinitItems(e, Tail(items), DeinitElem(e, Head(items), h))

\* list.deinit(alloc): an ArrayList that never grew owns no buffer
FreeList(h, a) == IF a = 0 THEN h ELSE Free(h, a)

\* the statements emit_deinit_for_field emitted for one field, run on the
\* field's value v
DeinitField(st, v, h) ==
    IF st.kind = "none" THEN h
    ELSE IF v.k = "undefined" THEN [h EXCEPT !.bad = TRUE]
    ELSE IF st.opt /\ v.k = "null" THEN h
    ELSE IF st.kind = "free" THEN Free(h, v.a)
    ELSE IF st.kind = "deinit" THEN deinit(st.T, v, h)
    ELSE FreeList(DeinitItems(st.elem, v.items, h), v.a)

DeinitFields(sts, i, v, h) ==
    IF i > Len(sts) THEN h
    ELSE DeinitFields(sts, i + 1, v, DeinitField(sts[i], v.fs[sts[i].name], h))

\* the generated deinit method of struct/union `name`, run on value v
deinit(name, v, h) ==
    LET g == Gen(name)
    IN  IF g.k = "struct" THEN DeinitFields(g.deinit, 1, v, h)
        ELSE LET i == CHOOSE i \in 1..Len(g.deinit) : g.deinit[i].name = v.alt
             IN  DeinitElem(g.deinit[i].elem, v.p, h)

RECURSIVE Errdefer(_, _, _, _, _)
\* the errdefer block of a struct read: release obj.f for every f with
\* isset.f
Errdefer(sts, i, o, is, h) ==
    IF i > Len(sts) THEN h
    ELSE Errdefer(sts, i + 1, o, is,
                  IF is[sts[i].name] THEN DeinitField(sts[i], o.fs[sts[i].name], h) ELSE h)

---------------------------------------------------------------------------
(* The generated read methods                                              *)

RECURSIVE read(_, _, _)
RECURSIVE ReadItems(_, _, _, _, _)

\* the optional FieldMeta: Null at the stop marker
StopToNull(f) ==
    IF IsErr(f) THEN f
    ELSE IF f.val.tp = "STOP" THEN Ret(Null, f.h)
    ELSE f

\* readFieldOrStop: the field header, or Null at the stop marker
readFieldOrStop(w, h) == StopToNull(readFieldBegin(w, h))

\* readCatchThrift without its catch: every error of T.read is returned
CatchNothing(r) == r

\* catch |err| switch (err): CantParseUnion and RequiredFieldMissing give
\* null, every other error is returned
CatchThrift(r) ==
    IF r.err \in {"CantParseUnion", "RequiredFieldMissing"} THEN Ret(Null, r.h)
    ELSE r

\* readCatchThrift: T.read, with the two recoverable errors turned into null
readCatchThrift(T, w, h) == CatchThrift(read(T, w, h))

\* a payload read by the method a reader case names
ReadBy(c, w, h) ==
    IF c.kind = "string" THEN readBinary(w, h)
    ELSE IF c.kind = "catch" THEN readCatchThrift(c.T, w, h)
    ELSE readScalar(c.readfn, w, h)

\* the rest of the item loop once item r has been read: an error leaves the
\* list as read so far; a null item is not appended
AppendItem(it, n, lst, w, r) ==
    IF IsErr(r) THEN [err |-> r.err, val |-> lst, h |-> r.h]
    ELSE ReadItems(it, n - 1,
                   IF r.val.k = "null" THEN lst ELSE [lst EXCEPT !.items = Append(@, r.val)],
                   w, r.h)

\* for (0..list_meta.size): read an item and append it
ReadItems(it, n, lst, w, h) ==
    IF n = 0 THEN Ret(lst, h)
    ELSE AppendItem(it, n, lst, w, ReadBy(it, w, h))

\* the loop state of a read: obj, the Isset bitmap, the Reader/allocator,
\* the error raised (if any) and whether the stop marker was read
Loop(o, is, h, err, stop) == [obj |-> o, isset |-> is, h |-> h, err |-> err, stop |-> stop]

Assign(o, name, v) == [o EXCEPT !.fs = [@ EXCEPT ![name] = v]]

\* loop state L after a Reader call with result r
After(L, r) == Loop(L.obj, L.isset, r.h, r.err, FALSE)

\* self.f = <list>; isset.f = true; the items r; try r.readListEnd()
ListRead(c, w, L, r) ==
    IF IsErr(r)
    THEN Loop(Assign(L.obj, c.name, r.val), [L.isset EXCEPT ![c.name] = TRUE],
              r.h, r.err, FALSE)
    ELSE After(Loop(Assign(L.obj, c.name, r.val), [L.isset EXCEPT ![c.name] = TRUE],
                    r.h, "none", FALSE),
               readListEnd(w, r.h))

\* the list case after readListBegin gave m: the list is allocated with
\* capacity m.size, then filled
ListCase(c, w, L, m) ==
    IF IsErr(m) THEN After(L, m)
    ELSE ListRead(c, w, L,
                  ReadItems(c.item, m.val.size,
                            ListV(<<>>, IF m.val.size > 0 THEN m.h.nxt ELSE 0), w,
                            IF m.val.size > 0 THEN Alloc(m.h) ELSE m.h))

\* isset.f = true before the value is read: a failed read leaves the bit set
ValueCaseBitFirst(c, L, r) ==
    IF IsErr(r) THEN Loop(L.obj, [L.isset EXCEPT ![c.name] = TRUE], r.h, r.err, FALSE)
    ELSE IF r.val.k = "null" THEN After(L, r)
    ELSE Loop(Assign(L.obj, c.name, r.val), [L.isset EXCEPT ![c.name] = TRUE],
              r.h, "none", FALSE)

\* self.f = value; isset.f = true (nothing when readCatchThrift gave null)
ValueCase(c, L, r) ==
    IF IsErr(r) \/ r.val.k = "null" THEN After(L, r)
    ELSE Loop(Assign(L.obj, c.name, r.val), [L.isset EXCEPT ![c.name] = TRUE],
              r.h, "none", FALSE)

\* the body of one case of read<Struct>Field when field.tp is the tag the
\* case requires
ReadStructCase(c, w, L) ==
    IF c.kind = "list" THEN ListCase(c, w, L, readListBegin(w, L.h))
    ELSE ValueCase(c, L, ReadBy(c, w, L.h))

\* switch (@enumFromInt(field.fid)): the case of the field with that id,
\* or 0 when the id is `default` or undeclared
CaseOf(g, fid) ==
    IF \E i \in 1..Len(g.field_tags) : g.field_tags[i].id = fid
    THEN LET n == g.field_tags[CHOOSE i \in 1..Len(g.field_tags) :
                                    g.field_tags[i].id = fid].name
         IN  CHOOSE j \in 1..Len(g.field_cases) : g.field_cases[j].name = n
    ELSE 0

\* a field case without its `if (field.tp == TType.X)` test
ConformsById(g, j, field) == j # 0 /\ g.field_cases[j].kind # "skip"

\* the case j is taken and its `if (field.tp == TType.X)` holds
Conforms(g, j, field) ==
    j # 0 /\ g.field_cases[j].kind # "skip" /\ field.tp = g.field_cases[j].tp

\* read<Struct>Field
ReadStructField(g, w, L, field) ==
    IF Conforms(g, CaseOf(g, field.fid), field)
    THEN ReadStructCase(g.field_cases[CaseOf(g, field.fid)], w, L)
    ELSE After(L, skip(field.tp, w, L.h))

\* if (try read<Union>Field(...)) |new_obj| obj = new_obj
NewObj(g, c, L, r) ==
    IF IsErr(r) \/ r.val.k = "null" THEN After(L, r)
    ELSE Loop(UnionV(g.name, c.name, r.val), L.isset, r.h, "none", FALSE)

\* read<Union>Field, and the assignment of its result in the read loop
ReadUnionField(g, w, L, field) ==
    IF Conforms(g, CaseOf(g, field.fid), field)
    THEN NewObj(g, g.field_cases[CaseOf(g, field.fid)], L,
                ReadBy(g.field_cases[CaseOf(g, field.fid)], w, L.h))
    ELSE After(L, skip(field.tp, w, L.h))

\* var obj = .{ required: undefined, optional: null }; var isset = .{};
\* a union read starts from obj = null
ReadInit(g, h) ==
    IF g.k = "struct"
    THEN Loop(StructV(g.name,
                      [n \in {g.init[i].name : i \in 1..Len(g.init)} |->
                          IF g.init[CHOOSE i \in 1..Len(g.init) : g.init[i].name = n].init
                             = "undefined"
                          THEN Undefined ELSE Null]),
              [n \in {g.init[i].name : i \in 1..Len(g.init)} |-> FALSE],
              h, "none", FALSE)
    ELSE Loop(Null, <<>>, h, "none", FALSE)

\* try r.readFieldEnd(), after the field helper left the loop state L
FieldEnded(w, L) == IF IsErr(L) THEN L ELSE After(L, readFieldEnd(w, L.h))

\* the loop body for the field header f
ReadOn(g, w, L, f) ==
    IF IsErr(f) THEN After(L, f)
    ELSE IF f.val.k = "null" THEN Loop(L.obj, L.isset, f.h, "none", TRUE)
    ELSE FieldEnded(w, IF g.k = "struct"
                       THEN ReadStructField(g, w, [L EXCEPT !.h = f.h], f.val)
                       ELSE ReadUnionField(g, w, [L EXCEPT !.h = f.h], f.val))

\* one pass of `while (try readFieldOrStop(r)) |field| { ... }`
ReadIter(g, w, L) == ReadOn(g, w, L, readFieldOrStop(w, L.h))

\* a validate that tests no field
validate_nothing(g, is) == "none"

\* validate(isset)
validate(g, is) ==
    IF \E i \in 1..Len(g.validate) : ~is[g.validate[i]] THEN "RequiredFieldMissing"
    ELSE "none"

\* a read that returns obj without `orelse ThriftError.CantParseUnion`
FinalCheckNoOrelse(g, L) ==
    IF IsErr(L) THEN [L EXCEPT !.stop = TRUE]
    ELSE IF g.k = "struct" THEN Loop(L.obj, L.isset, L.h, validate(g, L.isset), TRUE)
    ELSE Loop(L.obj, L.isset, L.h, "none", TRUE)

\* try validate(isset) (struct) or `obj orelse CantParseUnion` (union)
FinalCheck(g, L) ==
    IF IsErr(L) THEN [L EXCEPT !.stop = TRUE]
    ELSE IF g.k = "struct" THEN Loop(L.obj, L.isset, L.h, validate(g, L.isset), TRUE)
    ELSE Loop(L.obj, L.isset, L.h, IF L.obj.k = "null" THEN "CantParseUnion" ELSE "none", TRUE)

\* after the loop: readStructEnd, then the final check
ReadFinish(g, w, L) == FinalCheck(g, After(L, readStructEnd(w, L.h)))

\* an error return of read: the struct's errdefer block runs; a union read
\* has none
ErrorReturn(g, L) ==
    Err(L.err, IF g.k = "struct" THEN Errdefer(g.errdefer, 1, L.obj, L.isset, L.h) ELSE L.h)

RECURSIVE ReadLoop(_, _, _)
\* the field loop, up to the stop marker or the first error
ReadLoop(g, w, L) ==
    IF IsErr(L) \/ L.stop THEN L ELSE ReadLoop(g, w, ReadIter(g, w, L))

\* the statements after the field loop
ReadTail(g, w, L) == IF IsErr(L) THEN L ELSE ReadFinish(g, w, L)

\* the statements after readStructBegin gave b
ReadBody(g, w, L0, b) ==
    IF IsErr(b) THEN [L0 EXCEPT !.err = b.err]
    ELSE ReadTail(g, w, ReadLoop(g, w, [L0 EXCEPT !.h = b.h]))

\* what read returns from its last loop state
Return(g, L) == IF IsErr(L) THEN ErrorReturn(g, L) ELSE Ret(L.obj, L.h)

\* the generated read method of struct/union `name`
read(name, w, h) ==
    Return(Gen(name), ReadBody(Gen(name), w, ReadInit(Gen(name), h), readStructBegin(w, h)))

---------------------------------------------------------------------------
(* Inputs: the values handed to write, and the streams a peer may send     *)

\* payload data: the generated code never inspects it
DataVals == {0, 1}

\* longest list in a value or a stream
MaxLen == 2

\* deepest nesting of structs/unions in a value or a stream
MaxDepth == 2

\* most fields a peer sends at the top level of a received stream
MaxFields == 2

\* a field id no definition of the catalogue declares
UnknownFid == 9

RECURSIVE SeqsUpTo(_, _)
SeqsUpTo(S, n) ==
    IF n = 0 THEN {<<>>}
    ELSE SeqsUpTo(S, n - 1)
         \cup {Append(q, x) : q \in {r \in SeqsUpTo(S, n - 1) : Len(r) = n - 1}, x \in S}

RECURSIVE ValuesOf(_, _)
RECURSIVE FieldMaps(_, _, _)
\* the values of Zig type t (the type of a required field), nested at most
\* d deep
ValuesOf(t, d) ==
    LET dm == DefsMap(idl)
    IN  IF t.k = "ListType"
        THEN {ListV(q, 0) : q \in SeqsUpTo(ValuesOf(t.elem_type, d), MaxLen)}
        ELSE IF t.name \in {"string", "binary"} THEN {BytesV(n, 0) : n \in DataVals}
        ELSE IF t.name \in DOMAIN BASIC_NAMED_TO_TTYPE THEN {IntV(n) : n \in DataVals}
        ELSE IF t.name \notin DOMAIN dm THEN {}
        ELSE IF dm[t.name].k = "EnumDef"
        THEN {IntV(dm[t.name].members[i].value[1]) : i \in 1..Len(dm[t.name].members)}
        ELSE IF d = 0 THEN {}
        ELSE IF dm[t.name].k = "StructDef"
        THEN {StructV(t.name, fs) :
                 fs \in FieldMaps(dm[t.name].fields, Len(dm[t.name].fields), d - 1)}
        ELSE UNION {{UnionV(t.name, dm[t.name].fields[i].name, p) :
                        p \in ValuesOf(dm[t.name].fields[i].type, d - 1)} :
                    i \in 1..Len(dm[t.name].fields)}

\* the assignments of values to the first i fields; an optional field may
\* be null
FieldMaps(fields, i, d) ==
    IF i = 0 THEN {<<>>}
    ELSE {m @@ (fields[i].name :> v) :
             m \in FieldMaps(fields, i - 1, d),
             v \in ValuesOf(fields[i].type, d)
                   \cup (IF fields[i].required THEN {} ELSE {Null})}

RECURSIVE Strip(_)
\* a value without its allocation ids: what structural equality compares
Strip(v) ==
    IF v.k = "bytes" THEN BytesV(v.n, 0)
    ELSE IF v.k = "list" THEN ListV([i \in 1..Len(v.items) |-> Strip(v.items[i])], 0)
    ELSE IF v.k = "struct" THEN StructV(v.T, [n \in DOMAIN v.fs |-> Strip(v.fs[n])])
    ELSE IF v.k = "union" THEN UnionV(v.T, v.alt, Strip(v.p))
    ELSE v


\* the wire type a conforming writer stamps on a field of type t
WireTag(t) ==
    IF t.k = "ListType" THEN "LIST" ELSE classify_type(t, DefsMap(idl)).ttype

\* wire types of the fields a reader must skip
NoiseTags == {"I32", "STRING", "STRUCT", "LIST"}

\* some payload of wire type tp
NoisePayload(tp) ==
    IF tp = "STRUCT"
    THEN <<StructBegin, FieldBegin("I32", 1), Data("I32", 0), FieldEnd, FieldStop, StructEnd>>
    ELSE IF tp = "LIST" THEN <<ListBegin("STRING", 1), Data("Binary", 0), ListEnd>>
    ELSE <<Data(TTYPE_TO_FRAME[tp], 0)>>

\* a wire type other than tp
OtherTag(tp) == IF tp = "STRING" THEN "I32" ELSE "STRING"

\* payload data of a received stream: the generated code never inspects it
RecvData == {0}

RECURSIVE PayloadsFor(_, _)
RECURSIVE FieldsFor(_, _, _)
\* the fields sent with declared field i of struct/union `name`
FieldsOf(name, d, i) ==
    {q \in FieldsFor(name, d, FALSE) : q[1].n = DefsMap(idl)[name].fields[i].id}

\* the bodies sent for a nested struct/union: no field, one field, or one
\* of each field
NestedBodies(name, d) ==
    LET fs == DefsMap(idl)[name].fields
    IN  {<<>>} \cup FieldsFor(name, d, FALSE)
        \cup (IF \A i \in 1..Len(fs) : FieldsOf(name, d, i) # {}
              THEN {Flatten([i \in 1..Len(fs) |-> CHOOSE q \in FieldsOf(name, d, i) : TRUE])}
              ELSE {})

\* the bodies sent for a struct/union that is a list item: no field, or the
\* first declared field
ItemBodies(name) ==
    LET fs == DefsMap(idl)[name].fields
    IN  {<<>>} \cup (IF fs # <<>> /\ FieldsOf(name, 0, 1) # {}
                     THEN {CHOOSE q \in FieldsOf(name, 0, 1) : TRUE}
                     ELSE {})

\* a struct/union without a field
EmptyRecord == <<StructBegin, FieldStop, StructEnd>>

\* the encodings of a list item of type t
ItemsFor(t) ==
    IF t.k = "ListType" THEN {}
    ELSE IF WireTag(t) # "STRUCT" THEN {<<Data(TTYPE_TO_FRAME[WireTag(t)], n)>> : n \in RecvData}
    ELSE {<<StructBegin>> \o b \o <<FieldStop, StructEnd>> : b \in ItemBodies(t.name)}

\* the encodings of a payload of type t; a list holds at most one empty
\* struct/union
PayloadsFor(t, d) ==
    IF t.k = "ListType"
    THEN {<<ListBegin(WireTag(t.elem_type), Len(q))>> \o Flatten(q) \o <<ListEnd>> :
             q \in {r \in SeqsUpTo(ItemsFor(t.elem_type), MaxLen) :
                       Cardinality({i \in 1..Len(r) : r[i] = EmptyRecord}) <= 1}}
         \cup {<<ListBegin(OtherTag(WireTag(t.elem_type)), 1)>>
               \o NoisePayload(OtherTag(WireTag(t.elem_type))) \o <<ListEnd>>}
    ELSE IF WireTag(t) # "STRUCT"
    THEN {<<Data(TTYPE_TO_FRAME[WireTag(t)], n)>> : n \in RecvData}
    ELSE {<<StructBegin>> \o b \o <<FieldStop, StructEnd>> :
             b \in IF d = 0 THEN {<<>>} ELSE NestedBodies(t.name, d - 1)}

\* the fields a peer may send to a reader of struct/union `name`: every
\* declared field with a payload of its type and, with noise, fields the
\* reader must skip (a declared id with another wire type, an unknown id)
FieldsFor(name, d, noise) ==
    LET fs == DefsMap(idl)[name].fields
        ok == {i \in 1..Len(fs) :
                  fs[i].type.k = "ListType" \/ ~IsErr(classify_type(fs[i].type, DefsMap(idl)))}
    IN  UNION {{<<FieldBegin(WireTag(fs[i].type), fs[i].id)>> \o p \o <<FieldEnd>> :
                   p \in IF fs[i].type.k = "ListType"
                            /\ IsErr(classify_list_elem_type(fs[i].type.elem_type, DefsMap(idl)))
                         THEN {} ELSE PayloadsFor(fs[i].type, d)} : i \in ok}
        \cup (IF noise
              THEN {<<FieldBegin(OtherTag(WireTag(fs[i].type)), fs[i].id)>>
                    \o NoisePayload(OtherTag(WireTag(fs[i].type))) \o <<FieldEnd>> : i \in ok}
                   \cup {<<FieldBegin(tp, UnknownFid)>> \o NoisePayload(tp) \o <<FieldEnd>> :
                            tp \in NoiseTags}
              ELSE {})

\* the proper prefixes of the frame sequences of S
Truncated(S) == UNION {{SubSeq(q, 1, n) : n \in 0..(Len(q) - 1)} : q \in S}

---------------------------------------------------------------------------
(* The schema files compiled: ASTs as parse_idl returns them               *)

Req(id, type, name) == Field(id, TRUE, type, name, <<>>)

Opt(id, type, name) == Field(id, FALSE, type, name, <<>>)

N(name) == NamedType(name)

\* spec.md 8, the concrete scenario (Point.y replaced by a string)
ShapesFile ==
    IDLFile(<<
        EnumDef("Color", <<EnumMember("RED", <<0>>), EnumMember("GREEN", <<1>>)>>),
        StructDef("Point", <<Req(1, N("i32"), "x"), Opt(2, N("string"), "label")>>),
        StructDef("Shape", <<Req(1, N("Point"), "origin"), Opt(2, N("Color"), "color"),
                             Opt(3, ListType(N("i32")), "tags")>>)>>)

UnionsFile ==
    IDLFile(<<
        StructDef("Inner", <<Req(1, N("string"), "s")>>),
        UnionDef("U", <<Opt(1, N("i32"), "n"), Opt(2, N("string"), "s"),
                        Opt(3, N("Inner"), "inner")>>),
        StructDef("Holder", <<Req(1, N("U"), "u")>>),
        StructDef("Crowd", <<Opt(1, ListType(N("U")), "us")>>),
        StructDef("Bag", <<Req(1, ListType(N("Inner")), "inners")>>)>>)

\* a struct and an older view of it
EvolutionFile ==
    IDLFile(<<
        StructDef("ABC", <<Req(1, N("i32"), "a"), Opt(2, ListType(N("string")), "b"),
                           Req(3, N("string"), "c")>>),
        StructDef("AC", <<Req(1, N("i32"), "a"), Req(3, N("string"), "c")>>)>>)

ScalarsFile ==
    IDLFile(<<
        StructDef("Scalars", <<Req(1, N("bool"), "b"), Opt(2, N("i8"), "y"),
                               Opt(3, N("i16"), "h"), Opt(4, N("i64"), "l"),
                               Opt(5, N("binary"), "raw")>>)>>)

ListUnionFile ==
    IDLFile(<<
        UnionDef("LU", <<Opt(1, ListType(N("i32")), "xs"), Opt(2, N("i32"), "n")>>),
        StructDef("HasLU", <<Opt(1, N("LU"), "u")>>)>>)

UndeclaredFiles ==
    {IDLFile(<<StructDef("Bad", <<Req(1, N("Foo"), "x")>>)>>),
     IDLFile(<<StructDef("BadL", <<Opt(1, ListType(N("Foo")), "xs")>>)>>),
     IDLFile(<<UnionDef("BadU", <<Opt(1, N("Foo"), "x")>>)>>),
     IDLFile(<<UnionDef("BadLU", <<Opt(1, N("i32"), "n"), Opt(2, ListType(N("Foo")), "xs")>>)>>),
     IDLFile(<<StructDef("Mix", <<Opt(1, N("double"), "d"), Req(2, N("Foo"), "x")>>)>>)}

UnsupportedFiles ==
    {IDLFile(<<StructDef("D", <<Opt(1, N("double"), "d")>>)>>),
     IDLFile(<<StructDef("LL", <<Req(1, ListType(ListType(N("i32"))), "m")>>)>>),
     IDLFile(<<StructDef("B", <<Req(1, N("byte"), "b")>>)>>),
     IDLFile(<<StructDef("Node", <<Opt(1, N("Node"), "next")>>)>>),
     IDLFile(<<EnumDef("E", <<EnumMember("A", <<>>)>>)>>),
     IDLFile(<<StructDef("Ok", <<Req(1, N("i32"), "a")>>), UnionDef("Empty", <<>>)>>)}

\* enums with a member that has no explicit value: the only member, a
\* later member, the first member of an enum that follows a struct
AutoNumberedFiles ==
    {IDLFile(<<EnumDef("E", <<EnumMember("A", <<>>)>>)>>),
     IDLFile(<<EnumDef("E", <<EnumMember("A", <<0>>), EnumMember("B", <<>>)>>)>>),
     IDLFile(<<StructDef("Ok", <<Req(1, N("i32"), "a")>>),
               EnumDef("E", <<EnumMember("A", <<>>), EnumMember("B", <<1>>)>>)>>)}

\* a double as a struct field, as a union alternative, as the element of
\* a list field, as an alternative that follows one generate_union accepts,
\* and as the element of a list alternative of a union
DoubleFiles ==
    {IDLFile(<<StructDef("D", <<Opt(1, N("double"), "d")>>)>>),
     IDLFile(<<UnionDef("U", <<Opt(1, N("double"), "d")>>)>>),
     IDLFile(<<StructDef("D", <<Req(1, ListType(N("double")), "xs")>>)>>),
     IDLFile(<<StructDef("Ok", <<Req(1, N("i32"), "a")>>),
               UnionDef("U", <<Opt(1, N("i32"), "n"), Opt(2, N("double"), "d")>>)>>),
     IDLFile(<<UnionDef("LU", <<Opt(1, ListType(N("double")), "xs")>>)>>)}

\* a struct with a list field, and a struct that nests it
NestedListFile ==
    IDLFile(<<
        StructDef("Bag", <<Req(1, ListType(N("i32")), "xs")>>),
        StructDef("Holder", <<Req(1, N("Bag"), "u")>>)>>)

\* definitions that refer to themselves or back to one another, an empty
\* enum, alone and referred to, and an empty union
RecursiveFiles ==
    {IDLFile(<<StructDef("Node", <<Opt(1, N("Node"), "next")>>)>>),
     IDLFile(<<StructDef("A", <<Opt(1, N("B"), "b")>>),
               StructDef("B", <<Req(1, N("A"), "a")>>)>>),
     IDLFile(<<UnionDef("U", <<Opt(1, N("U"), "u")>>)>>),
     IDLFile(<<StructDef("A", <<Opt(1, N("U"), "u")>>),
               UnionDef("U", <<Opt(1, N("A"), "a")>>)>>),
     IDLFile(<<EnumDef("E", <<>>)>>),
     IDLFile(<<EnumDef("E", <<>>), StructDef("D", <<Req(1, N("E"), "d")>>)>>),
     IDLFile(<<UnionDef("Empty", <<>>)>>)}

IDLFiles ==
    {ShapesFile, UnionsFile, EvolutionFile, ScalarsFile, ListUnionFile, NestedListFile}
    \cup UndeclaredFiles \cup UnsupportedFiles \cup AutoNumberedFiles \cup DoubleFiles
    \cup RecursiveFiles

---------------------------------------------------------------------------
(* parser.py: pretty_print, which writes the source texts of the catalogue *)

RECURSIVE type_to_str(_)
type_to_str(t) ==
    IF t.k = "NamedType" THEN Spelling[t.name]
    ELSE Spelling["list"] \o <<"<">> \o type_to_str(t.elem_type) \o <<">">>

\* "\n".join(lines)
RECURSIVE Join(_)
Join(lines) ==
    IF lines = <<>> THEN <<>>
    ELSE IF Len(lines) = 1 THEN lines[1]
    ELSE lines[1] \o <<"\n">> \o Join(Tail(lines))

\* str(default): an integer or an identifier
DefaultText(default) ==
    IF default = <<>> THEN <<>>
    ELSE <<" ", "=", " ">> \o (IF default[1] \in Int THEN str(default[1])
                               ELSE Spelling[default[1]])

FieldLine(f) ==
    <<" ", " ">> \o str(f.id) \o <<":", " ">>
    \o Spelling[IF f.required THEN "required" ELSE "optional"] \o <<" ">>
    \o type_to_str(f.type) \o <<" ">> \o Spelling[f.name] \o DefaultText(f.default)
    \o <<";">>

MemberLine(m) ==
    <<" ", " ">> \o Spelling[m.name]
    \o (IF m.value # <<>> THEN <<" ", "=", " ">> \o str(m.value[1]) ELSE <<>>) \o <<",">>

DefinitionLines(d) ==
    <<Spelling[IF d.k = "EnumDef" THEN "enum"
               ELSE IF d.k = "StructDef" THEN "struct" ELSE "union"]
      \o <<" ">> \o Spelling[d.name] \o <<" ", "{">>>>
    \o (IF d.k = "EnumDef" THEN [i \in 1..Len(d.members) |-> MemberLine(d.members[i])]
        ELSE [i \in 1..Len(d.fields) |-> FieldLine(d.fields[i])])
    \o <<<<"}", "\n">>>>

RECURSIVE AllLines(_)
AllLines(ds) == IF ds = <<>> THEN <<>> ELSE DefinitionLines(ds[1]) \o AllLines(Tail(ds))

pretty_print(file) == Join(AllLines(file.definitions))

\* the catalogue as Thrift source texts
CatalogueSources == {pretty_print(f) : f \in IDLFiles}

\* a text written word by word: a word of the vocabulary as it is spelled,
\* anything else (a punctuation mark, a digit) as the character it is
Chars(w) == IF w \in DOMAIN Spelling THEN Spelling[w] ELSE <<w>>

RECURSIVE Line(_)
\* the words ws, one blank between two words
Line(ws) ==
    IF ws = <<>> THEN <<>>
    ELSE IF Len(ws) = 1 THEN Chars(ws[1])
    ELSE Chars(ws[1]) \o <<" ">> \o Line(Tail(ws))

\* a definition that generates no reader or writer
EnumText == Line(<<"enum", "E", "{", "A", "=", "0", "}", "\n">>)

\* what may stand before or after the construct a text is about
Contexts == {<<>>, EnumText}

\* top-level declarations of full Thrift outside the subset
UnsupportedDeclarations ==
    {Line(<<"typedef", "i32", "Foo", "\n">>),
     Line(<<"const", "i32", "x", "=", "1", "\n">>),
     Line(<<"service", "Foo", "{", "}", "\n">>),
     Line(<<"exception", "Bad", "{", "}", "\n">>)}

DeclarationSources ==
    {pre \o d \o post : pre \in Contexts, d \in UnsupportedDeclarations, post \in Contexts}

\* a namespace directive as the parser reads it: no terminating semicolon
NamespaceDirective == Line(<<"namespace", "cpp", "foo", "\n">>)

\* a definition with a semicolon in it
StructText == Line(<<"struct", "Bad", "{", "1", ":", "required", "i32", "x", ";", "}", "\n">>)

\* the directive before a definition, or between two
NamespaceSources ==
    {pre \o NamespaceDirective \o post : pre \in Contexts, post \in {EnumText, StructText}}

\* bodies of include/namespace statements, none with a ";" in it: a scope
\* and a name, a quoted file name, a quoted path, nothing
StatementBodies ==
    {<<" ">> \o Line(<<"cpp", "foo">>),
     <<" ", "\"">> \o Line(<<"foo">>) \o <<"\"">>,
     <<" ", "\"">> \o Line(<<"foo">>) \o <<"/">> \o Line(<<"Foo">>) \o <<"\"">>,
     <<>>}

\* an include or namespace statement closed by its ";", in a context
StatementSources ==
    {pre \o Spelling[kw] \o body \o <<";">> \o post :
        pre \in Contexts, kw \in SKIP_STATEMENTS, body \in StatementBodies,
        post \in Contexts}

\* what may follow a sign: nothing, a brace, a blank, one digit, two digits
AfterSign ==
    {<<>>, <<"}">>, <<" ", "1", "}">>, <<"1", " ", "}">>, <<"1", "2", "}">>}

\* a sign where an enum value is expected, or at the start of the text
SignSources ==
    {pre \o <<sign>> \o rest :
        pre \in {<<>>, Line(<<"enum", "E", "{", "A", "=">>) \o <<" ">>},
        sign \in {"+", "-"}, rest \in AfterSign}

\* a blacklisted identifier alone, or where a field type is expected
BlacklistSources ==
    {pre \o Spelling[w] \o post :
        pre \in {<<>>, Line(<<"struct", "Bad", "{", "1", ":", "required">>) \o <<" ">>},
        w \in NOT_IMPL,
        post \in {<<>>, <<" ">> \o Line(<<"x", ";", "}">>)}}

\* texts with comments and annotations in front of a definition
CommentSources ==
    {<<"/", "/", " ">> \o Line(<<"x", "\n">>) \o EnumText,
     <<"/", "*", " ">> \o Line(<<"x", "\n", "*">>) \o <<"/", " ">> \o EnumText,
     <<"@">> \o Line(<<"foo", "\n">>) \o EnumText,
     <<"@">> \o Line(<<"foo", "=", "-">>) \o <<"1", "\n">> \o EnumText,
     <<"@">> \o Line(<<"foo", "=">>) \o <<" ", "\"">> \o Line(<<"x">>) \o <<"\\", "\"", "\"", " ">>
        \o EnumText}

\* texts that end in a lexical or syntax failure: a stray character, an
\* unterminated comment, a bad annotation, an unexpected token, the end of
\* the tokens inside a definition, `extends`; and an annotation at the very
\* end of the text
ErrorSources ==
    {EnumText \o <<"$">>,
     EnumText \o <<"/", "*", " ">> \o Line(<<"x", "\n">>),
     EnumText \o <<"@", "1">>,
     Line(<<"enum", "E", "{", "1", "}">>),
     Line(<<"struct", "Bad", "{", "1", ":", "required", "}">>),
     Line(<<"struct", "Bad", "{", "1", ":", "i32", "x", "=", "}">>),
     EnumText \o Line(<<"enum", "E", "{", "A", "=", "0">>),
     EnumText \o Line(<<"struct", "Bad", "{">>),
     Line(<<"union">>),
     Line(<<"struct", "Bad", "extends", "Foo", "{", "}">>),
     EnumText \o <<"@">> \o Line(<<"foo">>),
     EnumText \o <<"@">> \o Line(<<"foo", "=">>)}

Sources ==
    CatalogueSources \cup DeclarationSources \cup NamespaceSources \cup StatementSources
    \cup SignSources \cup BlacklistSources \cup CommentSources \cup ErrorSources

---------------------------------------------------------------------------
(* The compilation run (code_gen.py __main__), then the generated code     *)

defsmap == DefsMap(idl)

\* the structs and unions of the compiled file
Records == {n \in DOMAIN defsmap : defsmap[n].k \in {"StructDef", "UnionDef"}}

\* r declares a subset of w's fields: an older or newer view of w
IsView(r, w) ==
    /\ defsmap[r].k = defsmap[w].k
    /\ \A i \in 1..Len(defsmap[r].fields) :
          \E j \in 1..Len(defsmap[w].fields) : defsmap[w].fields[j] = defsmap[r].fields[i]

Init ==
    /\ src \in Sources
    /\ idx = 0
    /\ row = 1
    /\ col = 1
    /\ tokens = <<>>
    /\ ppos = 0
    /\ exc = NoException
    /\ idl = IDLFile(<<>>)
    /\ gpc = "lex"
    /\ parts = <<>>
    /\ gerr = "none"
    /\ printed = FALSE
    /\ rname = ""
    /\ wname = ""
    /\ wval = Null
    /\ wire = <<>>
    /\ pc = "idle"
    /\ obj = Null
    /\ isset = <<>>
    /\ heap = Heap0
    /\ rerr = "none"
    /\ sent = 0
    /\ eof = FALSE

\* the run ends with exception e
Raises(e) ==
    /\ exc' = e
    /\ gerr' = e.type
    /\ gpc' = "raised"

\* all_tokens: one pass of the main loop, r what it comes to
Scanned(r) ==
    IF r.spins
    THEN gpc' = "spin" /\ UNCHANGED <<idx, row, col, tokens, exc, gerr>>
    ELSE IF r.exc.type # "none"
    THEN Raises(r.exc) /\ UNCHANGED <<idx, row, col, tokens>>
    ELSE /\ idx' = r.p.idx
         /\ row' = r.p.row
         /\ col' = r.p.col
         /\ tokens' = tokens \o r.tok
         /\ UNCHANGED <<exc, gerr, gpc>>

Tokenize ==
    /\ gpc = "lex"
    /\ idx < Len(src)
    /\ Scanned(Scan(src, Pos(idx, row, col), src[idx + 1]))
    /\ UNCHANGED <<src, ppos, idl, parts, printed, rname, wname, wval, wire, pc, obj,
                   isset, heap, rerr, sent, eof>>

\* all_tokens is exhausted: Parser.__init__ holds the token list
EndOfText ==
    /\ gpc = "lex"
    /\ idx >= Len(src)
    /\ gpc' = "parse"
    /\ UNCHANGED <<front, idl, parts, gerr, printed, rname, wname, wval, wire, pc, obj,
                   isset, heap, rerr, sent, eof>>

\* Parser.parse: one pass of its loop, r what it comes to
Parsed(r) ==
    IF Failed(r)
    THEN Raises(r.exc) /\ UNCHANGED <<ppos, idl>>
    ELSE /\ ppos' = r.self.pos
         /\ idl' = IDLFile(idl.definitions \o r.val)
         /\ UNCHANGED <<exc, gerr, gpc>>

ParseDefinition ==
    /\ gpc = "parse"
    /\ ppos < Len(tokens)
    /\ Parsed(ParsePass(Parser(src, tokens, ppos)))
    /\ UNCHANGED <<src, idx, row, col, tokens, parts, printed, rname, wname, wval, wire,
                   pc, obj, isset, heap, rerr, sent, eof>>

\* parse returns IDLFile(defs); __main__ constructs the CodeGenerator
EndOfTokens ==
    /\ gpc = "parse"
    /\ ppos >= Len(tokens)
    /\ gpc' = "defs"
    /\ UNCHANGED <<front, idl, parts, gerr, printed, rname, wname, wval, wire, pc, obj,
                   isset, heap, rerr, sent, eof>>

\* generate: the next definition, in source order
GenerateDefinition ==
    /\ gpc = "defs"
    /\ Len(parts) < Len(idl.definitions)
    /\ LET r == generate_definition(idl.definitions[Len(parts) + 1], defsmap)
       IN  IF IsErr(r)
           THEN /\ gerr' = r.err
                /\ gpc' = "raised"
                /\ parts' = parts
           ELSE /\ parts' = Append(parts, r)
                /\ UNCHANGED <<gerr, gpc>>
    /\ UNCHANGED <<front, idl, printed, rname, wname, wval, wire, pc, obj, isset, heap, rerr,
                   sent, eof>>

\* the test block built without a limit on the depth of the recursion: the
\* sample of a definition that refers back to itself never returns
GenerateTestBlockUnbounded ==
    /\ gpc = "defs"
    /\ Len(parts) = Len(idl.definitions)
    /\ LET e == generate_test_block(idl, defsmap)
       IN  IF e = "RecursionError"
           THEN gerr' = gerr /\ gpc' = gpc
           ELSE IF e # "none"
           THEN gerr' = e /\ gpc' = "raised"
           ELSE gerr' = gerr /\ gpc' = "print"
    /\ UNCHANGED <<front, idl, parts, printed, rname, wname, wval, wire, pc, obj, isset, heap,
                   rerr, sent, eof>>

\* generate: the test block, after every definition
GenerateTestBlock ==
    /\ gpc = "defs"
    /\ Len(parts) = Len(idl.definitions)
    /\ LET e == generate_test_block(idl, defsmap)
       IN  IF e # "none"
           THEN gerr' = e /\ gpc' = "raised"
           ELSE gerr' = gerr /\ gpc' = "print"
    /\ UNCHANGED <<front, idl, parts, printed, rname, wname, wval, wire, pc, obj, isset, heap,
                   rerr, sent, eof>>

\* __main__ printing whatever parts generate had gathered when it raised
PrintPartial ==
    /\ gpc \in {"print", "raised"} /\ ~printed
    /\ gpc' = IF gpc = "print" THEN "done" ELSE gpc
    /\ printed' = TRUE
    /\ UNCHANGED <<front, idl, parts, gerr, rname, wname, wval, wire, pc, obj, isset, heap,
                   rerr, sent, eof>>

\* __main__: print(generated_code)
PrintGenerated ==
    /\ gpc = "print"
    /\ gpc' = "done"
    /\ printed' = TRUE
    /\ UNCHANGED <<front, idl, parts, gerr, rname, wname, wval, wire, pc, obj, isset, heap,
                   rerr, sent, eof>>

\* the loop state held in the variables
Cur == Loop(obj, isset, heap, "none", FALSE)

\* a frame no read method accepts: bytes that do not decode
Junk == Frame("Junk", "", 0, 0)

\* the generated code is in use once it has been printed
Compiled == gpc = "done"

\* a writer serialises a value of wname; a reader of rname (wname itself or
\* a view of it) is handed the complete stream
WriteValue ==
    /\ Compiled /\ pc = "idle"
    /\ \E wn \in Records :
          \E v \in ValuesOf(NamedType(wn), MaxDepth) :
             \E rn \in {r \in Records : IsView(r, wn)} :
                /\ wname' = wn
                /\ wval' = v
                /\ wire' = write(wn, v)
                /\ rname' = rn
    /\ eof' = TRUE
    /\ pc' = "begin"
    /\ UNCHANGED <<front, idl, gpc, parts, gerr, printed, obj, isset, heap, rerr, sent>>

\* a reader of rname is attached to a stream a peer is still sending
Connect ==
    /\ Compiled /\ pc = "idle"
    /\ \E rn \in Records : rname' = rn
    /\ pc' = "begin"
    /\ UNCHANGED <<front, idl, gpc, parts, gerr, printed, wname, wval, wire, obj, isset, heap,
                   rerr, sent, eof>>

\* the peer sends the frames the reader is waiting for: the next field, the
\* stop marker, the struct delimiters, junk, or it hangs up (part of a
\* field, then the end of the stream)
Deliver ==
    /\ pc \in {"begin", "loop", "end"}
    /\ ~eof
    /\ heap.pos > Len(wire)
    /\ \/ /\ pc = "begin"
          /\ wire' = <<StructBegin>>
          /\ UNCHANGED <<sent, eof>>
       \/ /\ pc = "loop" /\ sent < MaxFields
          /\ \E q \in FieldsFor(rname, MaxDepth, TRUE) : wire' = wire \o q
          /\ sent' = sent + 1
          /\ eof' = eof
       \/ /\ pc = "loop"
          /\ wire' = Append(wire, FieldStop)
          /\ UNCHANGED <<sent, eof>>
       \/ /\ pc = "end"
          /\ wire' = Append(wire, StructEnd)
          /\ UNCHANGED <<sent, eof>>
       \/ /\ pc = "loop"
          /\ wire' = Append(wire, Junk)
          /\ UNCHANGED <<sent, eof>>
       \/ /\ IF pc = "loop" /\ sent < MaxFields
             THEN \E q \in Truncated(FieldsFor(rname, MaxDepth, TRUE)) : wire' = wire \o q
             ELSE wire' = wire
          /\ eof' = TRUE
          /\ sent' = sent
    /\ UNCHANGED <<front, idl, gpc, parts, gerr, printed, rname, wname, wval, pc, obj, isset,
                   heap, rerr>>

\* the frames the next step of read needs have arrived
Ready == eof \/ heap.pos <= Len(wire)

\* read comes to loop state L: an error return, or the next statement
Step(L, then) ==
    IF IsErr(L)
    THEN /\ pc' = "failed"
         /\ rerr' = L.err
         /\ obj' = L.obj
         /\ isset' = L.isset
         /\ heap' = ErrorReturn(Gen(rname), L).h
    ELSE /\ pc' = IF L.stop THEN then ELSE "loop"
         /\ obj' = L.obj
         /\ isset' = L.isset
         /\ heap' = L.h
         /\ rerr' = rerr

\* read: var obj, var isset, errdefer, try r.readStructBegin()
ReadBegin ==
    /\ pc = "begin" /\ Ready
    /\ Step(After(ReadInit(Gen(rname), heap), readStructBegin(wire, heap)), "loop")
    /\ UNCHANGED <<front, idl, gpc, parts, gerr, printed, rname, wname, wval, wire, sent, eof>>

\* read: one pass of the field loop
ReadField ==
    /\ pc = "loop" /\ Ready
    /\ Step(ReadIter(Gen(rname), wire, Cur), "end")
    /\ UNCHANGED <<front, idl, gpc, parts, gerr, printed, rname, wname, wval, wire, sent, eof>>

\* read: try r.readStructEnd(), the final check, return obj
ReadEnd ==
    /\ pc = "end" /\ Ready
    /\ Step(ReadFinish(Gen(rname), wire, Cur), "done")
    /\ UNCHANGED <<front, idl, gpc, parts, gerr, printed, rname, wname, wval, wire, sent, eof>>

\* the caller releases the value read returned
Deinit ==
    /\ pc = "done"
    /\ pc' = "released"
    /\ heap' = deinit(rname, obj, heap)
    /\ UNCHANGED <<front, idl, gpc, parts, gerr, printed, rname, wname, wval, wire, obj, isset,
                   rerr, sent, eof>>

Next ==
    \/ Tokenize
    \/ EndOfText
    \/ ParseDefinition
    \/ EndOfTokens
    \/ GenerateDefinition
    \/ GenerateTestBlock
    \/ PrintGenerated
    \/ WriteValue
    \/ Connect
    \/ Deliver
    \/ ReadBegin
    \/ ReadField
    \/ ReadEnd
    \/ Deinit

Spec == Init /\ [][Next]_vars

\* every variable has a value of its kind
TypeOK ==
    /\ gpc \in {"lex", "parse", "defs", "raised", "print", "done", "spin"}
    /\ pc \in {"idle", "begin", "loop", "end", "done", "failed", "released"}
    /\ sent \in 0..MaxFields
    /\ eof \in BOOLEAN

---------------------------------------------------------------------------
(* The structure of a frame sequence, read off the frames alone            *)

IsOpen(f) == f.t \in {"StructBegin", "FieldBegin", "ListBegin"}

IsClose(f) == f.t \in {"StructEnd", "FieldEnd", "ListEnd"}

\* how many begin markers are open just before frame p
Depth(w, p) ==
    Cardinality({i \in 1..(p - 1) : IsOpen(w[i])})
    - Cardinality({i \in 1..(p - 1) : IsClose(w[i])})

\* the end markers after p that bring the nesting back to the level of p
Closers(w, p) == {q \in (p + 1)..Len(w) : IsClose(w[q]) /\ Depth(w, q + 1) = Depth(w, p)}

\* the end marker matching the begin marker at p; 0 when the sequence ends
\* before it
Close(w, p) ==
    IF Closers(w, p) = {} THEN 0
    ELSE CHOOSE q \in Closers(w, p) : \A r \in Closers(w, p) : q <= r

\* the end marker that belongs to each begin marker
EndOf == [StructBegin |-> "StructEnd", FieldBegin |-> "FieldEnd", ListBegin |-> "ListEnd"]

\* the frames that start a list item of the list opened at p
ItemStarts(w, p) ==
    {q \in (p + 1)..(Close(w, p) - 1) :
        Depth(w, q) = Depth(w, p) + 1 /\ ~IsClose(w[q])}

\* every begin marker has its own end marker, and every ListBegin counts
\* its items
Balanced(w) ==
    \A p \in 1..Len(w) :
       IsOpen(w[p]) =>
          /\ Close(w, p) # 0
          /\ w[Close(w, p)].t = EndOf[w[p].t]
          /\ w[p].t = "ListBegin" => w[p].n = Cardinality(ItemStarts(w, p))

\* the field headers of the outermost struct of w
TopFieldStarts(w) == {p \in 1..Len(w) : w[p].t = "FieldBegin" /\ Depth(w, p) = 1}

\* errors of the Reader, as opposed to the two ThriftErrors
DecodeErrors == {"EndOfStream", "InvalidData"}

Recoverable == {"CantParseUnion", "RequiredFieldMissing"}

\* read has returned, with a value or with an error
Returned == pc \in {"done", "failed", "released"}

IsStruct(name) == name # "" /\ defsmap[name].k = "StructDef"

IsUnion(name) == name # "" /\ defsmap[name].k = "UnionDef"

\* the declared fields of `name` with the id and the wire type of header fb
DeclaredAs(name, fb) ==
    {i \in 1..Len(defsmap[name].fields) :
        /\ defsmap[name].fields[i].id = fb.n
        /\ WireTag(defsmap[name].fields[i].type) = fb.tp}

\* the field header the read loop is about to read, if it has arrived
AtField == pc = "loop" /\ heap.pos <= Len(wire) /\ wire[heap.pos].t = "FieldBegin"

---------------------------------------------------------------------------
(* C1: round trip                                                          *)

\* C1: for every struct or union the generator emitted code for and every
\* value v of its shape, read on the frames write(v) produced returns a
\* value structurally equal to v.
C1_RoundTrip ==
    (wname # "" /\ rname = wname /\ Returned) => (pc # "failed" /\ Strip(obj) = wval)

---------------------------------------------------------------------------
(* C2: release completeness                                                *)

\* C2: once read has failed, or has succeeded and deinit has been called on
\* the value it returned, every allocation made during that read is freed
\* (and none was freed twice or read uninitialised).
C2_AllReleased ==
    pc \in {"failed", "released"} => (heap.live = {} /\ ~heap.bad)

---------------------------------------------------------------------------
(* C3: union read, first conforming field wins                             *)

\* C3: in a union read, once a field has produced a variant, later matching
\* fields do not change the result.
C3_FirstWins ==
    [][(pc = "loop" /\ IsUnion(rname) /\ obj.k = "union") => Strip(obj') = Strip(obj)]_vars

---------------------------------------------------------------------------
(* C4: required fields                                                     *)

\* the required fields of the struct being read that no field of the
\* stream was decoded into
Undecoded ==
    {n \in {defsmap[rname].fields[i].name :
               i \in {j \in 1..Len(defsmap[rname].fields) : defsmap[rname].fields[j].required}} :
        obj.fs[n].k = "undefined"}

\* C4 as stated: a struct read returns a value only if every required
\* field was decoded; if any was not, it fails with RequiredFieldMissing.
C4_AsStated ==
    (Returned /\ IsStruct(rname)) =>
        /\ pc # "failed" => Undecoded = {}
        /\ Undecoded # {} => (pc = "failed" /\ rerr = "RequiredFieldMissing")

\* C4, amended: a struct read returns a value only if every required field
\* was decoded; if any was not, it returns no value: it fails with
\* RequiredFieldMissing, or with the Reader's decode error when one ended
\* the read first.  RequiredFieldMissing is raised for no other reason.
C4_RequiredFields ==
    (Returned /\ IsStruct(rname)) =>
        /\ pc # "failed" => Undecoded = {}
        /\ Undecoded # {} =>
              (pc = "failed" /\ rerr \in {"RequiredFieldMissing"} \cup DecodeErrors)
        /\ rerr = "RequiredFieldMissing" => (Undecoded # {} /\ heap.pos = Len(wire) + 1)

\* a complete struct without one of its required fields, another field
\* decoded, was refused
C4_Witness ==
    /\ IsStruct(rname) /\ pc = "failed" /\ rerr = "RequiredFieldMissing"
    /\ Undecoded # {}
    /\ \E n \in DOMAIN isset : isset[n]

---------------------------------------------------------------------------
(* C5: forward compatibility                                               *)

\* the struct read loop is at a field whose id is undeclared or whose wire
\* type differs from the declared one
AtForeignField == AtField /\ IsStruct(rname) /\ DeclaredAs(rname, wire[heap.pos]) = {}

\* such a field assigns nothing and sets no is-set bit; when its payload is
\* all there, exactly the field is consumed, nothing stays allocated and the
\* loop continues
SkipStep ==
    AtForeignField =>
        /\ obj' = obj
        /\ isset' = isset
        /\ Close(wire, heap.pos) # 0 =>
              /\ pc' = "loop"
              /\ heap' = [heap EXCEPT !.pos = Close(wire, heap.pos) + 1]

\* a stream written under one struct and read under a view of it succeeds
\* with exactly the view's fields, each as written
ViewRead ==
    (wname # "" /\ rname # wname /\ Returned) =>
        /\ pc # "failed"
        /\ DOMAIN obj.fs = {defsmap[rname].fields[i].name : i \in 1..Len(defsmap[rname].fields)}
        /\ \A n \in DOMAIN obj.fs : Strip(obj.fs[n]) = wval.fs[n]

\* C5: a wire field with an undeclared id or a wire type other than the
\* declared one is skipped by its wire type, assigns no field, sets no
\* is-set bit, and the loop continues; a stream written with {A, B, C} and
\* read under {A, C} succeeds with exactly A and C populated.
C5_ForwardCompatible == [][SkipStep]_vars /\ []ViewRead

\* {A, B, C} with B present was read under {A, C}
C5_Witness ==
    /\ wname = "ABC" /\ rname = "AC" /\ pc = "done"
    /\ wval.fs["b"].k = "list" /\ wval.fs["b"].items # <<>>

---------------------------------------------------------------------------
(* C6, C7: what the generator refuses                                      *)

HasListAlternative(d) ==
    d.k = "UnionDef" /\ \E i \in 1..Len(d.fields) : d.fields[i].type.k = "ListType"

\* the words parse_type takes for built-in types
TypeKeywords ==
    {"bool", "byte", "i8", "i16", "i32", "i64", "double", "string", "binary", "uuid"}

\* an identifier defined nowhere in the file
Undeclared(t) ==
    t.k = "NamedType" /\ t.name \notin TypeKeywords /\ t.name \notin DOMAIN defsmap

\* a struct or union with such a reference as a field type or as a list
\* element type
RefersUndeclared(d) ==
    /\ d.k \in {"StructDef", "UnionDef"}
    /\ \E i \in 1..Len(d.fields) :
          \/ Undeclared(d.fields[i].type)
          \/ d.fields[i].type.k = "ListType" /\ Undeclared(d.fields[i].type.elem_type)

\* definition i of the file is never emitted, and the generator stops at
\* it with the exception e
RefusedWith(i, e) ==
    /\ Len(parts) < i
    /\ (gpc = "raised" /\ Len(parts) = i - 1) => gerr = e

\* C6: generating a schema with a union that has a list<...> alternative
\* ends in an unsupported-feature failure, and no write/read code is
\* emitted for that union.
C6_ListAlternativeRefused ==
    \A i \in 1..Len(idl.definitions) :
       HasListAlternative(idl.definitions[i]) => RefusedWith(i, "NotImplementedError")

\* C7: generation for a struct or union that refers to an undeclared type,
\* as a field type or as a list element type, fails with a lookup failure
\* instead of emitting code.
C7_UndeclaredRefused ==
    \A i \in 1..Len(idl.definitions) :
       RefersUndeclared(idl.definitions[i]) => RefusedWith(i, "KeyError")

---------------------------------------------------------------------------
(* C8: union exclusivity                                                   *)

\* the field at p of the stream conforms to an alternative and its payload
\* decodes: it yields a variant
YieldsVariant(w, p) ==
    \E i \in DeclaredAs(rname, w[p]) :
       /\ defsmap[rname].fields[i].type.k = "NamedType"
       /\ w[p].tp = "STRUCT" =>
             read(defsmap[rname].fields[i].type.name, w, [Heap0 EXCEPT !.pos = p + 1]).err
             = "none"

\* C8: a union read returns a value holding exactly one alternative, or
\* fails; when no decode error occurs, it fails with CantParseUnion exactly
\* when no field of the stream produced a variant.
C8_UnionExclusive ==
    (Returned /\ IsUnion(rname)) =>
        /\ pc # "failed" =>
              /\ obj.k = "union"
              /\ \E i \in 1..Len(defsmap[rname].fields) :
                    obj.alt = defsmap[rname].fields[i].name
              /\ obj.p.k \in {"int", "bytes", "struct", "union"}
        /\ pc = "failed" => rerr \in {"CantParseUnion"} \cup DecodeErrors
        /\ rerr \notin DecodeErrors =>
              (rerr = "CantParseUnion" <=> ~\E p \in TopFieldStarts(wire) : YieldsVariant(wire, p))

\* a union stream with fields, none of which produced a variant, was
\* refused
C8_Witness ==
    /\ IsUnion(rname) /\ pc = "failed" /\ rerr = "CantParseUnion"
    /\ TopFieldStarts(wire) # {}

---------------------------------------------------------------------------
(* C9: nested and top-level errors                                         *)

\* the declared field the header at heap.pos conforms to
FieldAt == defsmap[rname].fields[CHOOSE i \in DeclaredAs(rname, wire[heap.pos]) : TRUE]

IsRecord(t) ==
    t.k = "NamedType" /\ t.name \in DOMAIN defsmap
    /\ defsmap[t.name].k \in {"StructDef", "UnionDef"}

\* the read loop is at a conforming field whose payload is a struct or union
AtNestedField ==
    /\ AtField /\ DeclaredAs(rname, wire[heap.pos]) # {}
    /\ IsRecord(FieldAt.type)

\* the read loop of a struct is at a conforming field whose payload is a
\* list of structs or unions, announced as such
AtNestedList ==
    /\ AtField /\ IsStruct(rname) /\ DeclaredAs(rname, wire[heap.pos]) # {}
    /\ FieldAt.type.k = "ListType" /\ IsRecord(FieldAt.type.elem_type)
    /\ heap.pos < Len(wire) /\ wire[heap.pos + 1].t = "ListBegin"

\* the nested read on its own, started at the payload
Nested == read(FieldAt.type.name, wire, [heap EXCEPT !.pos = @ + 1])

RECURSIVE ItemsKept(_, _, _, _)
\* the list after the item read with result r, n items being left with it
KeepItem(T, n, kept, r) ==
    IF r.err \in Recoverable THEN ItemsKept(T, n - 1, r.h, kept)
    ELSE IF r.err # "none" THEN [err |-> r.err, items |-> kept]
    ELSE ItemsKept(T, n - 1, r.h, Append(kept, Strip(r.val)))

\* the n list items of record type T read one by one from h on: the items
\* kept, until the first error that is not one of the two recoverable ones
ItemsKept(T, n, h, kept) ==
    IF n = 0 THEN [err |-> "none", items |-> kept]
    ELSE KeepItem(T, n, kept, read(T, wire, h))

NestedItems ==
    ItemsKept(FieldAt.type.elem_type.name, wire[heap.pos + 1].n,
              [heap EXCEPT !.pos = @ + 2], <<>>)

\* the value the enclosing read holds for the field at heap.pos
Held(o) == IF IsStruct(rname) THEN o.fs[FieldAt.name] ELSE o

\* what the enclosing read does with the result r of the nested read
NestedOutcome(r, complete) ==
    /\ r.err \in Recoverable =>
          /\ Strip(obj') = Strip(obj)
          /\ isset' = isset
          /\ complete => pc' = "loop"
    /\ r.err \in DecodeErrors => (pc' = "failed" /\ rerr' = r.err)
    /\ (r.err = "none" /\ complete) =>
          /\ pc' = "loop"
          /\ Strip(IF IsStruct(rname) THEN Held(obj') ELSE Held(obj').p) = Strip(r.val)

\* a nested struct or union as a field or as a union alternative
NestedFieldStep == AtNestedField => NestedOutcome(Nested, Close(wire, heap.pos) # 0)

\* what the enclosing read does with the items r of the nested reads
ListOutcome(r, complete) ==
    /\ r.err # "none" => (pc' = "failed" /\ rerr' = r.err)
    /\ (r.err = "none" /\ complete) =>
          /\ pc' = "loop"
          /\ Strip(Held(obj')).items = r.items

\* nested structs or unions as list elements
NestedListStep == AtNestedList => ListOutcome(NestedItems, Close(wire, heap.pos) # 0)

\* the outermost read, its stream complete: the two errors reach the caller
TopLevelStep ==
    (pc = "end" /\ heap.pos <= Len(wire) /\ wire[heap.pos].t = "StructEnd") =>
        /\ (IsStruct(rname) /\ Undecoded # {}) =>
              (pc' = "failed" /\ rerr' = "RequiredFieldMissing")
        /\ (IsUnion(rname) /\ obj.k = "null") => (pc' = "failed" /\ rerr' = "CantParseUnion")

\* C9: RequiredFieldMissing or CantParseUnion from the read of a nested
\* struct or union (a field, a union alternative, a list element) makes the
\* enclosing read treat the nested value as absent and continue; raised by
\* the outermost read they are returned to the caller; every other error of
\* a nested read is propagated unchanged.
C9_NestedErrors == [][NestedFieldStep /\ NestedListStep /\ TopLevelStep]_vars

\* a list of two structs arrived, one of them without its required field,
\* and the read returned the list without it
C9_Witness ==
    /\ rname = "Bag" /\ pc = "done"
    /\ \E p \in 1..Len(wire) : wire[p].t = "ListBegin" /\ wire[p].tp = "STRUCT" /\ wire[p].n = 2
    /\ obj.fs["inners"].k = "list" /\ Len(obj.fs["inners"].items) = 1

---------------------------------------------------------------------------
(* C10: the frames of a struct write                                       *)

RECURSIVE Framed(_, _)
RECURSIVE FramedStruct(_, _)
\* the payload of a value v of declared type t: a list between ListBegin
\* and ListEnd, a scalar as one frame, a struct framed as below; a union
\* as its own write emits it
Framed(t, v) ==
    IF t.k = "ListType"
    THEN <<ListBegin(WireTag(t.elem_type), Len(v.items))>>
         \o Flatten([i \in 1..Len(v.items) |-> Framed(t.elem_type, v.items[i])])
         \o <<ListEnd>>
    ELSE IF WireTag(t) # "STRUCT" THEN <<Data(TTYPE_TO_FRAME[WireTag(t)], v.n)>>
    ELSE IF defsmap[t.name].k = "StructDef" THEN FramedStruct(t.name, v)
    ELSE write(t.name, v)

\* StructBegin; for each field in declaration order that is required or
\* present, FieldBegin(wireTag, fieldId), the payload, FieldEnd; FieldStop;
\* StructEnd
FramedStruct(name, v) ==
    <<StructBegin>>
    \o Flatten([i \in 1..Len(defsmap[name].fields) |->
                  IF ~defsmap[name].fields[i].required
                     /\ v.fs[defsmap[name].fields[i].name].k = "null"
                  THEN <<>>
                  ELSE <<FieldBegin(WireTag(defsmap[name].fields[i].type),
                                    defsmap[name].fields[i].id)>>
                       \o Framed(defsmap[name].fields[i].type,
                                 v.fs[defsmap[name].fields[i].name])
                       \o <<FieldEnd>>])
    \o <<FieldStop, StructEnd>>

\* C10: a struct write emits exactly StructBegin; for each field in
\* declaration order that is required or present, FieldBegin(wireTag,
\* fieldId), the payload, FieldEnd (a list as ListBegin(elemTag, n), n
\* element payloads, ListEnd); FieldStop; StructEnd.  Every FieldBegin and
\* ListBegin has its matching end marker and n counts the element payloads.
C10_WriteFraming ==
    (pc = "begin" /\ wname # "" /\ IsStruct(wname)) =>
        (wire = FramedStruct(wname, wval) /\ Balanced(wire))

\* a struct with a nested struct, an enum and a list of two was written
C10_Witness ==
    /\ pc = "begin" /\ wname = "Shape"
    /\ wval.fs["color"].k = "int"
    /\ wval.fs["tags"].k = "list" /\ Len(wval.fs["tags"].items) = 2

---------------------------------------------------------------------------
(* C11: an absent optional field costs nothing on the wire                 *)

\* the optional fields of struct `name` that value v leaves absent
AbsentFields(name, v) ==
    {i \in 1..Len(defsmap[name].fields) :
        ~defsmap[name].fields[i].required /\ v.fs[defsmap[name].fields[i].name].k = "null"}

\* struct value v with field `name` set to x
WithField(v, name, x) == [v EXCEPT !.fs = [@ EXCEPT ![name] = x]]

\* the headers of field fid in the outermost struct of w
HeadersOf(w, fid) == {p \in TopFieldStarts(w) : w[p].n = fid}

\* w without the span that starts at header p and ends at its FieldEnd
CutAt(w, p) == SubSeq(w, 1, p - 1) \o SubSeq(w, Close(w, p) + 1, Len(w))

\* w with the span FieldBegin..FieldEnd of field fid taken out
WithoutField(w, fid) == CutAt(w, CHOOSE p \in HeadersOf(w, fid) : TRUE)

\* C11: the frames written for a struct value whose optional field f is
\* absent carry no header of f, and they are the frames written for the
\* same value with f present (whatever its value) minus exactly the span
\* FieldBegin..FieldEnd of f.
C11_AbsentOptional ==
    (pc = "begin" /\ wname # "" /\ IsStruct(wname)) =>
        \A i \in AbsentFields(wname, wval) :
           /\ HeadersOf(wire, defsmap[wname].fields[i].id) = {}
           /\ \A x \in ValuesOf(defsmap[wname].fields[i].type, MaxDepth - 1) :
                 /\ Cardinality(HeadersOf(write(wname,
                                     WithField(wval, defsmap[wname].fields[i].name, x)),
                                     defsmap[wname].fields[i].id)) = 1
                 /\ WithoutField(write(wname,
                                       WithField(wval, defsmap[wname].fields[i].name, x)),
                                 defsmap[wname].fields[i].id) = wire

\* a Shape was written with its colour present and its tags absent
C11_Witness ==
    /\ pc = "begin" /\ wname = "Shape"
    /\ wval.fs["color"].k = "int"
    /\ wval.fs["tags"].k = "null"

---------------------------------------------------------------------------
(* C12: service, exception, typedef and const declarations                 *)

\* parse_idl has just returned or raised: generation has not begun
ParseReturned == gpc \in {"defs", "raised"} /\ parts = <<>>

\* C12: a schema that contains a service, exception, typedef or const
\* declaration either fails with an unsupported-feature error that is not
\* the syntax error ParseException, or parses to the IDLFile of the text
\* without the declaration.
C12_UnsupportedDeclarations ==
    ParseReturned =>
       \A pre \in Contexts, d \in UnsupportedDeclarations, post \in Contexts :
          src = pre \o d \o post =>
             \/ gpc = "raised" /\ exc.type = "NotImplementedError"
             \/ gpc # "raised" /\ idl = parse(pre \o post).val

---------------------------------------------------------------------------
(* C13: the namespace directive of Parser.parse                            *)

\* C13: parsing a text with a `namespace <ident> <ident>` directive (no
\* terminating semicolon) before or between its definitions returns exactly
\* the definitions of the text without the directive, in order.
C13_NamespaceDiscarded ==
    ParseReturned =>
       \A pre \in Contexts, post \in {EnumText, StructText} :
          src = pre \o NamespaceDirective \o post =>
             (gpc # "raised" /\ idl = parse(pre \o post).val)

---------------------------------------------------------------------------
(* C14: include and namespace statements in the lexer                      *)

\* the tokens toks of text s as (type, text) pairs, positions left out
Lexemes(s, toks) == [i \in 1..Len(toks) |-> <<toks[i].tp, Slice(s, toks[i].start, toks[i].end)>>]

\* all_tokens has just ended: exhausted, or with an exception
LexingEnded == (gpc = "parse" /\ ppos = 0) \/ gpc = "raised"

\* the exception came out of all_tokens
LexerRaised == gpc = "raised" /\ exc.type # "none" /\ ppos = 0 /\ idx < Len(src)

\* C14: for every include/namespace statement whose body contains no ";"
\* (bodies with a "/" included), the tokens of pre + statement + ";" + post
\* are the tokens of pre followed by the tokens of post.
C14_StatementsSkipped ==
    LexingEnded =>
       \A pre \in Contexts, kw \in SKIP_STATEMENTS, body \in StatementBodies,
          post \in Contexts :
          src = pre \o Spelling[kw] \o body \o <<";">> \o post =>
             /\ ~LexerRaised
             /\ Lexemes(src, tokens) = Lexemes(pre, all_tokens(pre).tokens)
                                       \o Lexemes(post, all_tokens(post).tokens)

---------------------------------------------------------------------------
(* C15: a sign with and without digits                                     *)

\* the main loop of all_tokens is at a "+" or "-"
AtSign == gpc = "lex" /\ idx < Len(src) /\ src[idx + 1] \in {"+", "-"}

\* the pass yields one INT_CONST token that starts at the sign and ends
\* after the last digit of the run that follows it
YieldsSignedInt ==
    /\ gpc' = "lex"
    /\ Len(tokens') = Len(tokens) + 1
    /\ SubSeq(tokens', 1, Len(tokens)) = tokens
    /\ tokens'[Len(tokens')].tp = "INT_CONST"
    /\ tokens'[Len(tokens')].start = Pos(idx, row, col)
    /\ tokens'[Len(tokens')].end.idx > idx + 1
    /\ \A i \in (idx + 2)..tokens'[Len(tokens')].end.idx : isdigit(src[i])
    /\ ~isdigit(cur_char(src, tokens'[Len(tokens')].end.idx))
    /\ idx' = tokens'[Len(tokens')].end.idx

\* the pass fails with the invalid-integer-literal error
FailsInvalidInteger ==
    /\ gpc' = "raised"
    /\ exc'.type = "ParseException"
    /\ exc'.message = "Invalid integer literal"
    /\ tokens' = tokens

\* C15: when the lexer meets "+" or "-" not immediately followed by a
\* digit, lexing fails with the invalid-integer-literal error; a sign
\* immediately followed by digits yields a single INT_CONST token covering
\* the sign and the digits.
C15_Sign ==
    [][AtSign => IF isdigit(cur_char(src, idx + 1))
                 THEN YieldsSignedInt ELSE FailsInvalidInteger]_vars

---------------------------------------------------------------------------
(* C16: the blacklisted identifiers                                        *)

\* the word that starts at the position of the main loop
WordAt == Str(Slice(src, Pos(idx, row, col),
                    AdvanceWhile(src, Pos(idx, row, col), Letters \cup Digits \cup {"_"})))

\* the main loop of all_tokens is at the start of a blacklisted identifier
AtBlacklisted ==
    /\ gpc = "lex" /\ idx < Len(src)
    /\ (isalpha(src[idx + 1]) \/ src[idx + 1] = "_")
    /\ WordAt \in NOT_IMPL

\* the message f"Unsupported feature '{word}'"
UnsupportedFeature ==
    [map |-> "Unsupported feature 'map'", set |-> "Unsupported feature 'set'",
     cpp_type |-> "Unsupported feature 'cpp_type'",
     throws |-> "Unsupported feature 'throws'"]

\* C16: when the lexer reads an identifier that is exactly map, set,
\* cpp_type or throws, lexing fails with an error that is not the syntax
\* error and that names the feature; no token is produced for it.
C16_Blacklisted ==
    [][AtBlacklisted =>
          /\ gpc' = "raised"
          /\ exc'.type \notin {"none", "ParseException"}
          /\ exc'.message = UnsupportedFeature[WordAt]
          /\ tokens' = tokens]_vars

---------------------------------------------------------------------------
(* C17: what a syntax error carries                                        *)

\* parse_idl raised the lexical or syntax error ParseException
SyntaxError == gpc = "raised" /\ exc.type = "ParseException"

\* p is a position of the text s
PositionOf(s, p) == p.idx \in 0..Len(s) /\ p.row >= 1 /\ p.col >= 1

\* C17: every lexical or syntax failure of parse_idl reaches the caller
\* with no IDLFile returned (nothing is generated from it) and carries a
\* position of the source text: offset within 0..len(src), row >= 1,
\* column >= 1.
C17_ErrorPosition ==
    SyntaxError => (PositionOf(src, exc.pos) /\ parts = <<>> /\ ~printed)

---------------------------------------------------------------------------
(* C18: no output from a failed run                                        *)

\* every definition of the parsed file and the test block generate
GeneratesAll ==
    /\ \A i \in 1..Len(idl.definitions) :
          ~IsErr(generate_definition(idl.definitions[i], defsmap))
    /\ generate_test_block(idl, defsmap) = "none"

\* C18: a run in which lexing, parsing or the generation of a definition
\* or of the test block failed has printed no generated text; when text
\* has been printed (and the generated code is not yet in use), every
\* definition and the test block have been generated without an exception.
C18_FailClosed ==
    /\ (gpc \in {"raised", "spin"} \/ gerr # "none" \/ exc.type # "none") => ~printed
    /\ (printed /\ pc = "idle") =>
                  /\ Len(parts) = Len(idl.definitions)
                  /\ \A i \in 1..Len(parts) :
                        parts[i] = generate_definition(idl.definitions[i], defsmap)
                  /\ GeneratesAll

\* generation failed after a definition had been generated: in a later
\* definition or in the test block
C18_Witness ==
    /\ gpc = "raised" /\ exc.type = "none"
    /\ parts # <<>>
    /\ ~printed

---------------------------------------------------------------------------
(* C19: enum members without a value                                       *)

\* the source text of each of these files
AutoNumberedText == [f \in AutoNumberedFiles |-> pretty_print(f)]

\* definition d is an enum with a member that has no explicit value
AutoNumbered(d) ==
    d.k = "EnumDef" /\ \E i \in 1..Len(d.members) : d.members[i].value = <<>>

\* C19: a text with an enum member without "= value" is accepted by the
\* parser, which returns the member with its value absent; code generation
\* then fails, at that enum and with NotImplementedError; nothing is
\* printed, and no enum with a member lacking a value is among the parts
\* generated.
C19_AutoNumberingRefused ==
    \A f \in AutoNumberedFiles :
       src = AutoNumberedText[f] =>
          /\ exc.type = "none"
          /\ gpc \notin {"lex", "parse"} => idl = f
          /\ gpc \notin {"print", "done"} /\ ~printed
          /\ \A i \in 1..Len(parts) : ~AutoNumbered(idl.definitions[i])
          /\ gpc = "raised" => /\ gerr = "NotImplementedError"
                               /\ AutoNumbered(idl.definitions[Len(parts) + 1])

\* generation was refused at an enum whose first member has no value, after
\* the struct before it had been generated
C19_Witness ==
    /\ gpc = "raised" /\ gerr = "NotImplementedError"
    /\ Len(parts) = 1
    /\ Len(idl.definitions) = 2
    /\ AutoNumbered(idl.definitions[2])
    /\ idl.definitions[2].members[1].value = <<>>

---------------------------------------------------------------------------
(* C20: double is not writable                                             *)

\* the source text of each file that uses a double
DoubleText == [f \in DoubleFiles |-> pretty_print(f)]

\* the write statements generated for definition d
WriteStatements(d) == {d.write_calls[i] : i \in 1..Len(d.write_calls)}

\* a statement that writes a double payload, directly or as a list item
WritesDouble(w) ==
    \/ w.tp = "DOUBLE"
    \/ w.elem_type = "DOUBLE"
    \/ w.payload.cmd \in {"TODO_NOT_IMPLEMENTED", "Double"}

\* some field of definition d is a double or a list of doubles
UsesDouble(d) ==
    /\ d.k \in {"StructDef", "UnionDef"}
    /\ \E i \in 1..Len(d.fields) :
          \/ d.fields[i].type = N("double")
          \/ d.fields[i].type = ListType(N("double"))

\* C20: a file with a struct field, a union alternative or a list element of
\* type double is parsed without error, but generate raises
\* NotImplementedError at the first definition that has one, so that nothing
\* is printed; and whatever the file, no generated write statement writes a
\* double payload.
C20_DoubleRefused ==
    /\ \A i \in 1..Len(parts) :
          parts[i].k \in {"struct", "union"} =>
             \A w \in WriteStatements(parts[i]) : ~WritesDouble(w)
    /\ \A f \in DoubleFiles :
          src = DoubleText[f] =>
             /\ exc.type = "none"
             /\ gpc \notin {"lex", "parse"} => idl = f
             /\ gpc \notin {"print", "done"} /\ ~printed
             /\ \A i \in 1..Len(parts) : ~UsesDouble(idl.definitions[i])
             /\ gpc = "raised" => /\ gerr = "NotImplementedError"
                                  /\ UsesDouble(idl.definitions[Len(parts) + 1])

---------------------------------------------------------------------------
(* C21: type classification                                                *)

\* the fixed table of the builtin scalar names
ScalarTag ==
    [bool |-> "BOOL", i8 |-> "BYTE", i16 |-> "I16", i32 |-> "I32", i64 |-> "I64",
     double |-> "DOUBLE", string |-> "STRING", binary |-> "STRING"]

ClassifyTags == {"BOOL", "BYTE", "I16", "I32", "I64", "DOUBLE", "STRING", "STRUCT"}

\* the types classify_type is applied to: every type keyword, every name of
\* the file, a name the file does not declare, and lists of them
ClassifiedNames == TypeKeywords \cup DOMAIN defsmap \cup {"Foo"}

ClassifiedTypes ==
    {N(n) : n \in ClassifiedNames}
    \cup {ListType(N(n)) : n \in ClassifiedNames}
    \cup {ListType(ListType(N("i32")))}

Classified(ttype, is_enum) == [err |-> "none", ttype |-> ttype, is_enum |-> is_enum]

\* C21: with the definition table of the parsed file, classify_type returns
\* (tag of the fixed table, false) for a builtin scalar name, (STRUCT, false)
\* for the name of a struct or union, (I32, true) for the name of an enum;
\* a tag it returns is one of BOOL, BYTE, I16, I32, I64, DOUBLE, STRING,
\* STRUCT; it fails for a list type; and the write statement generated for a
\* non-list field carries the tag and the enum encoding so classified.
C21_Classification ==
    gpc = "defs" =>
       /\ \A t \in ClassifiedTypes :
             /\ (t.k = "NamedType" /\ t.name \in DOMAIN ScalarTag) =>
                   classify_type(t, defsmap) = Classified(ScalarTag[t.name], FALSE)
             /\ (t.k = "NamedType" /\ t.name \in DOMAIN defsmap
                 /\ defsmap[t.name].k \in {"StructDef", "UnionDef"}) =>
                   classify_type(t, defsmap) = Classified("STRUCT", FALSE)
             /\ (t.k = "NamedType" /\ t.name \in DOMAIN defsmap
                 /\ defsmap[t.name].k = "EnumDef") =>
                   classify_type(t, defsmap) = Classified("I32", TRUE)
             /\ classify_type(t, defsmap).err = "none" =>
                   classify_type(t, defsmap).ttype \in ClassifyTags
             /\ t.k = "ListType" => classify_type(t, defsmap).err # "none"
       /\ \A i \in 1..Len(parts) :
             parts[i].k \in {"struct", "union"} =>
                \A j \in 1..Len(parts[i].write_calls) :
                   idl.definitions[i].fields[j].type.k = "NamedType" =>
                      /\ parts[i].write_calls[j].tp
                            = classify_type(idl.definitions[i].fields[j].type, defsmap).ttype
                      /\ (parts[i].write_calls[j].payload.conv = "intFromEnum")
                            = classify_type(idl.definitions[i].fields[j].type, defsmap).is_enum

\* Shape has been generated: its origin classified as a struct reference,
\* its colour as an enum, and the type of its tags refused
C21_Witness ==
    /\ gpc = "defs"
    /\ \E i \in 1..Len(parts) :
          /\ parts[i].name = "Shape"
          /\ parts[i].write_calls[1].tp = "STRUCT"
          /\ parts[i].write_calls[2].tp = "I32"
          /\ parts[i].write_calls[2].payload.conv = "intFromEnum"
          /\ classify_type(idl.definitions[i].fields[3].type, defsmap).err
                = "NotImplementedError"

---------------------------------------------------------------------------
(* C22: sample lists have two elements                                     *)

\* every list-typed field of struct value v, and of the structs nested in
\* it, holds a list of exactly two elements
RECURSIVE ListsOfTwo(_, _)
ListsOfTwo(v, dm) ==
    IF v.k = "struct"
    THEN \A i \in 1..Len(dm[v.T].fields) :
            LET f == dm[v.T].fields[i]
            IN  IF f.type.k = "ListType"
                THEN /\ v.fs[f.name].k = "list"
                     /\ Len(v.fs[f.name].items) = 2
                     /\ \A j \in 1..Len(v.fs[f.name].items) :
                           ListsOfTwo(v.fs[f.name].items[j], dm)
                ELSE ListsOfTwo(v.fs[f.name], dm)
    ELSE IF v.k = "union" THEN ListsOfTwo(v.p, dm)
    ELSE TRUE

\* C22: once the test block is generated, in the value it writes for each
\* struct definition every list-typed field, of the struct itself or of a
\* struct nested in it, holds exactly two elements.
C22_SampleLists ==
    gpc = "print" =>
       \A i \in 1..Len(idl.definitions) :
          idl.definitions[i].k = "StructDef" =>
             ListsOfTwo(TestValue(idl.definitions[i], defsmap), defsmap)

---------------------------------------------------------------------------
(* C23: is-set / release coupling                                          *)

\* the allocations value v owns
RECURSIVE Owned(_)
Owned(v) ==
    IF v.k = "bytes" THEN {v.a}
    ELSE IF v.k = "list"
    THEN (IF v.a = 0 THEN {} ELSE {v.a}) \cup UNION {Owned(v.items[i]) : i \in 1..Len(v.items)}
    ELSE IF v.k = "struct" THEN UNION {Owned(v.fs[n]) : n \in DOMAIN v.fs}
    ELSE IF v.k = "union" THEN Owned(v.p)
    ELSE {}

\* a struct read is running or has ended
InStructRead == pc \in {"loop", "end", "done", "failed"} /\ IsStruct(rname)

\* the fields of the object under construction whose is-set bit is true
SetFields == {n \in DOMAIN isset : isset[n]}

\* every field whose bit is true has been assigned a decoded value
SetFieldsAssigned ==
    InStructRead => \A n \in SetFields : obj.fs[n].k \notin {"undefined", "null"}

\* C23: during a generated struct read a field's is-set bit is true only if
\* the field of obj has been assigned a decoded value; and a step on which
\* the read fails releases exactly the fields whose bit is true: nothing
\* uninitialised is released, nothing a set field owns stays allocated, and
\* no allocation outside the set fields is released.
C23_IssetCoupling ==
    [][/\ SetFieldsAssigned'
       /\ (pc # "failed" /\ pc' = "failed" /\ IsStruct(rname)) =>
             /\ heap'.bad = heap.bad
             /\ \A n \in SetFields' : Owned(obj'.fs[n]) \cap heap'.live = {}
             /\ heap.live \ UNION {Owned(obj'.fs[n]) : n \in SetFields'}
                   \subseteq heap'.live]_vars

\* a read of ABC failed after the list b had decoded an item and before the
\* required c was assigned: b's allocations are released, c is untouched
C23_Witness ==
    /\ pc = "failed" /\ rname = "ABC"
    /\ isset["b"] /\ obj.fs["b"].k = "list" /\ Len(obj.fs["b"].items) > 0
    /\ Owned(obj.fs["b"]) # {}
    /\ ~isset["c"] /\ obj.fs["c"] = Undefined
    /\ heap.live = {} /\ ~heap.bad

---------------------------------------------------------------------------
(* C24: writer / reader tag agreement                                      *)

\* the tag the claim names for a field of type t
AgreedTag(t) ==
    IF t.k = "ListType" THEN "LIST"
    ELSE IF t.name \in DOMAIN ScalarTag THEN ScalarTag[t.name]
    ELSE IF defsmap[t.name].k = "EnumDef" THEN "I32"
    ELSE "STRUCT"

\* field f of generated definition g: the FieldBegin tag the writer stamps
\* is the tag the reader's case for f's id tests, and the tag of f's type
TagsAgree(g, f) ==
    LET w == g.write_calls[CHOOSE j \in 1..Len(g.write_calls) :
                              g.write_calls[j].name = f.name]
    IN  /\ CaseOf(g, f.id) # 0
        /\ g.field_cases[CaseOf(g, f.id)].name = f.name
        /\ g.field_cases[CaseOf(g, f.id)].kind # "skip"
        /\ w.tp = g.field_cases[CaseOf(g, f.id)].tp
        /\ w.tp = AgreedTag(f.type)

\* C24: for every field of every generated struct and every non-list
\* alternative of every generated union, the tag the writer stamps in
\* FieldBegin for the field id is the tag the reader's case for that id
\* requires (LIST, STRUCT, I32 for an enum, the table tag for a scalar);
\* and when a reader of the writer's own definition is at a top-level field
\* header the writer produced, its case for that id accepts the tag.
C24_TagAgreement ==
    /\ gpc = "defs" =>
          \A i \in 1..Len(parts) :
             parts[i].k \in {"struct", "union"} =>
                \A j \in 1..Len(idl.definitions[i].fields) :
                   (parts[i].k = "struct"
                    \/ idl.definitions[i].fields[j].type.k # "ListType")
                      => TagsAgree(parts[i], idl.definitions[i].fields[j])
    /\ (AtField /\ wname # "" /\ rname = wname) =>
          Conforms(Gen(rname), CaseOf(Gen(rname), wire[heap.pos].n),
                   [k |-> "field", tp |-> wire[heap.pos].tp, fid |-> wire[heap.pos].n])

\* Shape is generated, with a struct, an enum and a list field
C24_Witness ==
    /\ gpc = "defs"
    /\ \E i \in 1..Len(parts) :
          /\ parts[i].name = "Shape"
          /\ TagsAgree(parts[i], idl.definitions[i].fields[1])
          /\ parts[i].field_cases[1].tp = "STRUCT"
          /\ parts[i].field_cases[2].tp = "I32"
          /\ parts[i].write_calls[3].tp = "LIST"
          /\ parts[i].field_cases[3].tp = "LIST"

---------------------------------------------------------------------------
(* C25: token position consistency                                         *)

\* the newline characters among the first `offset` characters of s
NewlinesBefore(s, offset) == {k \in 1..offset : s[k] = "\n"}

\* the last of them, 0 if there is none
LastNewline(s, offset) ==
    IF NewlinesBefore(s, offset) = {} THEN 0
    ELSE CHOOSE k \in NewlinesBefore(s, offset) : \A j \in NewlinesBefore(s, offset) : j <= k

\* position p of text s: its row is 1 + the newlines before its offset and
\* its column 1 + the characters after the last of them
Consistent(s, p) ==
    /\ p.idx \in 0..Len(s)
    /\ p.row = 1 + Cardinality(NewlinesBefore(s, p.idx))
    /\ p.col = 1 + p.idx - LastNewline(s, p.idx)

\* C25: while the lexer runs, every token it has yielded has
\* start.offset < end.offset <= len(src), and its start and its end have
\* the row and the column their offsets have in the text, whatever
\* comments, annotations or skipped statements precede the token.
C25_TokenPositions ==
    gpc = "lex" =>
       \A i \in 1..Len(tokens) :
          /\ tokens[i].start.idx < tokens[i].end.idx
          /\ tokens[i].end.idx <= Len(src)
          /\ Consistent(src, tokens[i].start)
          /\ Consistent(src, tokens[i].end)

\* a token was yielded on the second line, after a block comment that
\* holds a newline, and another one after it
C25_Witness ==
    /\ gpc = "lex"
    /\ Len(src) > 2 /\ src[1] = "/" /\ src[2] = "*"
    /\ Len(tokens) >= 2
    /\ tokens[1].start.row = 2 /\ tokens[1].start.col > 1
    /\ tokens[2].start.idx > tokens[1].end.idx

---------------------------------------------------------------------------
(* C26: lexer termination                                                  *)

\* C26: every pass of the lexer's main loop either raises, or strictly
\* increases the offset without passing len(src); so that on every text
\* the lexer yields finitely many tokens and then stops or raises.
C26_LexerTerminates ==
    [][gpc = "lex" =>
          \/ gpc' = "raised" /\ exc'.type # "none"
          \/ gpc' = "parse" /\ idx = Len(src)
          \/ gpc' = "lex" /\ idx' > idx /\ idx' <= Len(src)]_vars

---------------------------------------------------------------------------
(* C27: generation termination                                             *)

\* the compiler alone: tokenizer, parser, generator and __main__
Compile ==
    \/ Tokenize
    \/ EndOfText
    \/ ParseDefinition
    \/ EndOfTokens
    \/ GenerateDefinition
    \/ GenerateTestBlock
    \/ PrintGenerated

\* the interpreter executes the statement of generate it has come to
GenerateSpec ==
    Init /\ [][Compile]_vars /\ WF_vars(GenerateDefinition) /\ WF_vars(GenerateTestBlock)

\* C27: for every file the parser returned, generate comes to an end: it
\* returns the text (which __main__ then prints) or raises an error; also
\* for a struct or union that refers to itself or to a definition that
\* refers back to it, for an empty union and for an empty enum.
C27_GenerationTerminates == (gpc = "defs") ~> (gpc \in {"print", "raised"})

\* generate has raised on two structs that refer to each other, after it
\* generated both
C27_Witness ==
    /\ gpc = "raised" /\ gerr = "RecursionError"
    /\ Len(parts) = 2 /\ Len(idl.definitions) = 2
    /\ idl.definitions[1].fields[1].type = N(idl.definitions[2].name)
    /\ idl.definitions[2].fields[1].type = N(idl.definitions[1].name)

---------------------------------------------------------------------------
(* C28: list element tag check                                             *)

\* the declared list fields of the struct being read whose header is next
\* on the wire, followed by a list-begin marker whose element type tag is
\* not the wire tag of the schema's element type
MismatchedLists ==
    IF AtField /\ IsStruct(rname) /\ heap.pos < Len(wire)
    THEN {i \in DeclaredAs(rname, wire[heap.pos]) :
             /\ defsmap[rname].fields[i].type.k = "ListType"
             /\ wire[heap.pos + 1].t = "ListBegin"
             /\ wire[heap.pos + 1].tp # WireTag(defsmap[rname].fields[i].type.elem_type)}
    ELSE {}

\* the loop state had the field been skipped by its wire type
FieldSkipped ==
    FieldEnded(wire, After(Cur, skip("LIST", wire, [heap EXCEPT !.pos = @ + 1])))

\* C28: when a generated struct read comes to a list field whose list-begin
\* marker carries an element type tag other than the wire tag of the
\* schema's element type, and the field can be skipped by its wire type,
\* the read skips it: it does not fail, it is then past the field, and no
\* element has been decoded into the field.
C28_ElementTagChecked ==
    [][\A i \in MismatchedLists :
          ~IsErr(FieldSkipped) =>
             /\ pc' # "failed"
             /\ heap'.pos = FieldSkipped.h.pos
             /\ obj'.fs[defsmap[rname].fields[i].name].k = "list" =>
                   obj'.fs[defsmap[rname].fields[i].name].items = <<>>]_vars

---------------------------------------------------------------------------
(* C29: decoded list length                                                *)

\* the declared list fields whose header and list-begin marker the struct
\* read loop is about to read
ListsAtField ==
    IF AtField /\ IsStruct(rname) /\ heap.pos < Len(wire)
    THEN {i \in DeclaredAs(rname, wire[heap.pos]) :
             /\ defsmap[rname].fields[i].type.k = "ListType"
             /\ wire[heap.pos + 1].t = "ListBegin"}
    ELSE {}

\* the element kinds of C29: scalar-, enum- and string-like items on one
\* side, struct and union items (read through readCatchThrift) on the other
ItemKind(i) == emit_read_list_item_lines(defsmap[rname].fields[i].type.elem_type, defsmap).kind

\* C29: after a struct read has decoded a list field without error, the
\* decoded list holds exactly as many elements as the size declared by the
\* field's list-begin marker, whatever the element kind
C29_DecodedLength ==
    [][\A i \in ListsAtField :
          pc' = "loop" =>
             Len(obj'.fs[defsmap[rname].fields[i].name].items) = wire[heap.pos + 1].n]_vars

\* the same for the element kinds appended unconditionally (scalar, enum,
\* string/binary)
C29_DecodedLengthUncaught ==
    [][\A i \in ListsAtField :
          (pc' = "loop" /\ ItemKind(i) # "catch") =>
             Len(obj'.fs[defsmap[rname].fields[i].name].items) = wire[heap.pos + 1].n]_vars

===========================================================================
